---- MODULE Spec2Model ----
(***************************************************************************)
(* Reconciliation engine of the air-customer job system:                   *)
(*   SyncEngine      - GoogleCalendarService (api/services/googleCalendar) *)
(*   job store       - GoogleSheetsService   (googleSheets.js)             *)
(*   DriftDetector   - AutoDetectionService  (services/autoDetection)      *)
(*   Scheduler       - SchedulerService      (scheduler, tail of index.js) *)
(* Strings that the code inspects character by character (times, team      *)
(* names) are sequences of one-character strings.  Dates "2025-MM-DD" are  *)
(* pairs <<MM, DD>>; the empty string of a date field is <<>>.             *)
(***************************************************************************)
EXTENDS Integers, Sequences, FiniteSets, TLC

\* ------------------------------------------------------------------ bounds
MaxEvents == 3      \* event ids the calendar service hands out in a run
NumDays   == 2      \* consecutive calendar days a job may be scheduled on
MaxFaults == 1      \* external calls that fail in a behaviour
MaxTasks  == 2      \* cron tasks ever created by the scheduler

\* --------------------------------------------------------------- characters
Digits == {"0", "1", "2", "3", "4", "5", "6", "7", "8", "9"}

DigitVal(c) ==
    CASE c = "0" -> 0 [] c = "1" -> 1 [] c = "2" -> 2 [] c = "3" -> 3
      [] c = "4" -> 4 [] c = "5" -> 5 [] c = "6" -> 6 [] c = "7" -> 7
      [] c = "8" -> 8 [] c = "9" -> 9

\* UTF-16 code unit of the characters the model uses (JS compares strings by it)
CharCode(c) ==
    CASE c \in Digits -> 48 + DigitVal(c)
      [] c = " " -> 32
      [] c = ":" -> 58
      [] c = "?" -> 63
      [] c = "A" -> 65
      [] c = "B" -> 66
      [] c = "C" -> 67
      [] OTHER   -> 97

AllDigits(s) == \A i \in 1..Len(s) : s[i] \in Digits

\* String.prototype.includes
Includes(s, sub) ==
    \E i \in 0..(Len(s) - Len(sub)) :
        \A k \in 1..Len(sub) : s[i + k] = sub[k]

\* String.prototype.trim (only the space character occurs in the model)
RECURSIVE TrimLeft(_)
TrimLeft(s) == IF s # <<>> /\ Head(s) = " " THEN TrimLeft(Tail(s)) ELSE s

RECURSIVE TrimRight(_)
TrimRight(s) ==
    IF s # <<>> /\ s[Len(s)] = " " THEN TrimRight(SubSeq(s, 1, Len(s) - 1)) ELSE s

Trim(s) == TrimRight(TrimLeft(s))

\* String.prototype.padStart(2, '0')
PadStart2(s) == IF Len(s) < 2 THEN <<"0">> \o s ELSE s

\* a >= b on strings (lexicographic by code unit)
RECURSIVE StrGE(_, _)
StrGE(a, b) ==
    IF b = <<>> THEN TRUE
    ELSE IF a = <<>> THEN FALSE
    ELSE IF CharCode(Head(a)) > CharCode(Head(b)) THEN TRUE
    ELSE IF CharCode(Head(a)) < CharCode(Head(b)) THEN FALSE
    ELSE StrGE(Tail(a), Tail(b))

\* -------------------------------------------------------------------- dates
NoDate == <<>>

DaysInMonth(m) ==
    CASE m \in {1, 3, 5, 7, 8, 10, 12} -> 31
      [] m \in {4, 6, 9, 11}           -> 30
      [] OTHER                         -> 28      \* 2025 is not a leap year

RECURSIVE DaysBeforeMonth(_)
DaysBeforeMonth(m) == IF m <= 1 THEN 0 ELSE DaysBeforeMonth(m - 1) + DaysInMonth(m - 1)

\* new Date("2025-MM-DD"): the day number (UTC midnight) of a date string
ParseDate(d) == DaysBeforeMonth(d[1]) + d[2]

\* a date string no Date can be made of: "2025-13-01"
BadDate == <<13, 1>>

\* !isNaN(new Date(d).getTime())
IsValidDate(d) == d # NoDate /\ d[1] \in 1..12 /\ d[2] \in 1..DaysInMonth(d[1])

\* currentDate.toISOString().split('T')[0]: the date string of a day number
FormatDate(n) ==
    LET m == CHOOSE mm \in 1..12 :
                 DaysBeforeMonth(mm) < n /\ n <= DaysBeforeMonth(mm) + DaysInMonth(mm)
    IN  <<m, n - DaysBeforeMonth(m)>>

\* the scheduling window of the model: 2025-07-31 and the days after it
FirstDay == ParseDate(<<7, 31>>)
DateStrings == { FormatDate(n) : n \in FirstDay..(FirstDay + NumDays - 1) }

\* -------------------------------------------------------------------- times
T_0900 == <<"0", "9", ":", "0", "0">>
T_9_00 == <<"9", ":", "0", "0">>
T_1200 == <<"1", "2", ":", "0", "0">>
T_1300 == <<"1", "3", ":", "0", "0">>
T_1700 == <<"1", "7", ":", "0", "0">>
T_0800 == <<"0", "8", ":", "0", "0">>
T_1800 == <<"1", "8", ":", "0", "0">>
T_0_00 == <<"0", ":", "0", "0">>
T_0000 == <<"0", "0", ":", "0", "0">>
T_2500 == <<"2", "5", ":", "0", "0">>
T_noon == <<"n", "o", "o", "n">>
W_AM     == <<"A", "M">>
W_PM     == <<"P", "M">>
W_AllDay == <<"A", "l", "l", " ", "D", "a", "y">>

Null == <<>>      \* null / undefined / '' : every falsy string value

ColonAt(s) == CHOOSE i \in 1..Len(s) : s[i] = ":"

\* /^\d{a,b}:\d{c,d}$/
MatchesHM(s, hmin, hmax, mmin, mmax) ==
    \E i \in 1..Len(s) :
        /\ s[i] = ":"
        /\ (i - 1) \in hmin..hmax
        /\ (Len(s) - i) \in mmin..mmax
        /\ AllDigits(SubSeq(s, 1, i - 1))
        /\ AllDigits(SubSeq(s, i + 1, Len(s)))

\* variant: the minutes of an H:M time are not padded
normalizeTime_KeepsShortMinutes(time) ==
    IF time = Null THEN Null
    ELSE LET timeStr == Trim(time)
             hours   == SubSeq(timeStr, 1, ColonAt(timeStr) - 1)
             minutes == SubSeq(timeStr, ColonAt(timeStr) + 1, Len(timeStr))
         IN  IF MatchesHM(timeStr, 1, 2, 2, 2)
                 THEN PadStart2(hours) \o <<":">> \o minutes
             ELSE IF Len(timeStr) \in 1..2 /\ AllDigits(timeStr)
                 THEN PadStart2(timeStr) \o <<":", "0", "0">>
             ELSE IF MatchesHM(timeStr, 1, 2, 1, 1)
                 THEN PadStart2(hours) \o <<":">> \o minutes
             ELSE IF Len(timeStr) = 3 /\ AllDigits(timeStr)
                 THEN <<"0", timeStr[1], ":">> \o SubSeq(timeStr, 2, 3)
             ELSE IF Len(timeStr) = 4 /\ AllDigits(timeStr)
                 THEN SubSeq(timeStr, 1, 2) \o <<":">> \o SubSeq(timeStr, 3, 4)
             ELSE Null

\* normalizeTime(time) of createSingleDateEvent; Null is its null
normalizeTime(time) ==
    IF time = Null THEN Null
    ELSE LET timeStr == Trim(time)
             hours   == SubSeq(timeStr, 1, ColonAt(timeStr) - 1)
             minutes == SubSeq(timeStr, ColonAt(timeStr) + 1, Len(timeStr))
         IN  IF MatchesHM(timeStr, 1, 2, 2, 2)
                 THEN PadStart2(hours) \o <<":">> \o minutes
             ELSE IF Len(timeStr) \in 1..2 /\ AllDigits(timeStr)
                 THEN PadStart2(timeStr) \o <<":", "0", "0">>
             ELSE IF MatchesHM(timeStr, 1, 2, 1, 1)
                 THEN PadStart2(hours) \o <<":">> \o PadStart2(minutes)
             ELSE IF Len(timeStr) = 3 /\ AllDigits(timeStr)
                 THEN <<"0", timeStr[1], ":">> \o SubSeq(timeStr, 2, 3)
             ELSE IF Len(timeStr) = 4 /\ AllDigits(timeStr)
                 THEN SubSeq(timeStr, 1, 2) \o <<":">> \o SubSeq(timeStr, 3, 4)
             ELSE Null

\* variant: without a window, a start before 13:00 gives the end 12:00
ResolveTimes_MorningEndsAtNoon(job) ==
    LET startTime == IF job.start_time = Null THEN T_0900 ELSE job.start_time
        endTime   == IF job.end_time = Null THEN T_1700 ELSE job.end_time
    IN  IF endTime = T_0_00 \/ endTime = T_0000
        THEN CASE job.time_window = W_AM     -> [start |-> T_0900, end |-> T_1200]
               [] job.time_window = W_PM     -> [start |-> T_1300, end |-> T_1700]
               [] job.time_window = W_AllDay -> [start |-> T_0800, end |-> T_1800]
               [] OTHER ->
                    IF StrGE(startTime, T_1300)
                        THEN [start |-> startTime, end |-> T_1700]
                    ELSE [start |-> startTime, end |-> T_1200]
        ELSE [start |-> startTime, end |-> endTime]

\* variant: the repair by window replaces the end time only
ResolveTimes_KeepsStart(job) ==
    LET startTime == IF job.start_time = Null THEN T_0900 ELSE job.start_time
        endTime   == IF job.end_time = Null THEN T_1700 ELSE job.end_time
    IN  IF endTime = T_0_00 \/ endTime = T_0000
        THEN CASE job.time_window = W_AM     -> [start |-> startTime, end |-> T_1200]
               [] job.time_window = W_PM     -> [start |-> startTime, end |-> T_1700]
               [] job.time_window = W_AllDay -> [start |-> startTime, end |-> T_1800]
               [] OTHER ->
                    IF startTime = T_0900 \/ startTime = T_9_00
                        THEN [start |-> startTime, end |-> T_1200]
                    ELSE IF StrGE(startTime, T_1300)
                        THEN [start |-> startTime, end |-> T_1700]
                    ELSE [start |-> startTime, end |-> T_1700]
        ELSE [start |-> startTime, end |-> endTime]

\* start/end time after the defaults and the end-time repair
ResolveTimes(job) ==
    LET startTime == IF job.start_time = Null THEN T_0900 ELSE job.start_time
        endTime   == IF job.end_time = Null THEN T_1700 ELSE job.end_time
    IN  IF endTime = T_0_00 \/ endTime = T_0000
        THEN CASE job.time_window = W_AM     -> [start |-> T_0900, end |-> T_1200]
               [] job.time_window = W_PM     -> [start |-> T_1300, end |-> T_1700]
               [] job.time_window = W_AllDay -> [start |-> T_0800, end |-> T_1800]
               [] OTHER ->
                    IF startTime = T_0900 \/ startTime = T_9_00
                        THEN [start |-> startTime, end |-> T_1200]
                    ELSE IF StrGE(startTime, T_1300)
                        THEN [start |-> startTime, end |-> T_1700]
                    ELSE [start |-> startTime, end |-> T_1700]
        ELSE [start |-> startTime, end |-> endTime]

\* the time part of `${date}T${normalized}:00+07:00`, with the 09:00 / 17:00
\* fall-back for a time that did not normalize
TimePart(raw, fallback) ==
    LET n == normalizeTime(raw) IN IF n = Null THEN fallback ELSE n

\* minutes after midnight of an "HH:MM" time part, -1 when new Date() of the
\* date-time string is an Invalid Date (hour > 24, minute > 59, 24:MM)
MinuteOfDay(t) ==
    LET colon == ColonAt(t)
        hs == SubSeq(t, 1, colon - 1)
        ms == SubSeq(t, colon + 1, Len(t))
        h  == IF Len(hs) = 2 THEN 10 * DigitVal(hs[1]) + DigitVal(hs[2]) ELSE -1
        m  == IF Len(ms) = 2 THEN 10 * DigitVal(ms[1]) + DigitVal(ms[2]) ELSE -1
    IN  IF h < 0 \/ m < 0 \/ m > 59 \/ h > 24 \/ (h = 24 /\ m > 0) THEN -1
        ELSE 60 * h + m

\* -------------------------------------------------------------------- teams
TeamA    == <<"t", "i", "m", " ", "A">>            \* 'ทีม A'      (old name)
TeamB    == <<"t", "i", "m", " ", "B">>            \* 'ทีม B'      (old name)
NewQueue == <<"n", "a", "t", "k", "h", "i", "o">>  \* 'นัดคิวใหม่'  (new name)
Quote    == <<"s", "a", "n", "o", "e">>            \* 'เสนอราคา'   (new name)
CorruptA == <<"?", "?", "?", " ", "A">>            \* '??? A'
CorruptB == <<"?", "?", "?", " ", "B">>            \* '??? B'
CorruptC == <<"?", "?", "?", " ", "C">>            \* '???' without A or B
TeamC    == <<"t", "i", "m", " ", "C">>            \* a team nobody configured

Undefined == "undefined"

\* variant: a team without a mapping falls back to the first queue calendar
calendarIds_Fallback(teamName) ==
    CASE teamName = TeamA    -> "calA"
      [] teamName = TeamB    -> "calB"
      [] teamName = NewQueue -> "calA"
      [] teamName = Quote    -> "calB"
      [] OTHER               -> "calA"

\* this.calendarIds[teamName] (CALENDAR_ID_TEAM_A / CALENDAR_ID_TEAM_B are set)
calendarIds(teamName) ==
    CASE teamName = TeamA    -> "calA"
      [] teamName = TeamB    -> "calB"
      [] teamName = NewQueue -> "calA"
      [] teamName = Quote    -> "calB"
      [] OTHER               -> Undefined

\* this.queueCalendars[team] of the drift detector
queueCalendars(team) ==
    CASE team = TeamA    -> "calA"
      [] team = TeamB    -> "calB"
      [] team = NewQueue -> "calA"
      [] team = Quote    -> "calB"
      [] OTHER           -> Undefined

QueueCalendarIds == {"calA", "calB"}

\* the repair of a corrupted team name at the head of syncJobToCalendar
RepairTeam(team) ==
    IF team # Null /\ Includes(team, <<"?", "?", "?">>)
    THEN IF Includes(team, <<"A">>) THEN TeamA
         ELSE IF Includes(team, <<"B">>) THEN TeamB
         ELSE team
    ELSE team

\* ---------------------------------------------------------------- job store
VARIABLES rows,          \* the Jobs sheet below its header, in sheet order
          events,        \* the events of the calendar service
          nextEventId,   \* the next id the calendar service hands out
          lastOp         \* what the last completed operation did and returned

NoEvent == 0             \* the empty eventId cell

\* job_id as the sync engine passes it around: the id of the sheet, or the
\* derived `${job_id}-${dateStr}` of one day of a range
PlainId(id)        == [base |-> id, date |-> NoDate]
DerivedId(id, day) == [base |-> id, date |-> day]

NaN == -1
\* new Date(job.created_date): under the header listed in updateJobData the
\* sheet has no created_date column and the field is undefined on every job;
\* under the header of the documented Jobs sheet the rows carry it
CreatedDate(job) == IF "created_date" \in DOMAIN job THEN job.created_date ELSE NaN

\* the comparator of the sort in getAllJobs; NaN counts as 0 (keep the order)
CompareCreated(a, b) ==
    IF CreatedDate(a) = NaN \/ CreatedDate(b) = NaN THEN 0
    ELSE CreatedDate(b) - CreatedDate(a)

\* stable insertion of job x into the sorted sequence s
RECURSIVE InsertSorted(_, _)
InsertSorted(s, x) ==
    IF s = <<>> THEN <<x>>
    ELSE IF CompareCreated(s[Len(s)], x) <= 0 THEN Append(s, x)
    ELSE Append(InsertSorted(SubSeq(s, 1, Len(s) - 1), x), s[Len(s)])

RECURSIVE SortJobs(_)
SortJobs(s) ==
    IF s = <<>> THEN <<>>
    ELSE InsertSorted(SortJobs(SubSeq(s, 1, Len(s) - 1)), s[Len(s)])

getAllJobs(sheet) == SortJobs(sheet)

\* jobs.findIndex(job => job.job_id === jobId), 0 when there is none
FindIndex(jobs, jobId) ==
    IF \E i \in 1..Len(jobs) : PlainId(jobs[i].job_id) = jobId
    THEN CHOOSE i \in 1..Len(jobs) :
             /\ PlainId(jobs[i].job_id) = jobId
             /\ \A k \in 1..(i - 1) : PlainId(jobs[k].job_id) # jobId
    ELSE 0

\* updateJobEventId: [ok, wrote, sheet]; ok = FALSE is the thrown error.
\* The cell written is K<index in getAllJobs + 2>, i.e. sheet row <index>.
updateJobEventId(sheet, jobId, eventId, storeFails) ==
    LET idx == FindIndex(getAllJobs(sheet), jobId)
    IN  IF idx = 0 THEN [ok |-> FALSE, wrote |-> 0, sheet |-> sheet]
        ELSE IF storeFails THEN [ok |-> FALSE, wrote |-> 1, sheet |-> sheet]
        ELSE [ok |-> TRUE, wrote |-> 1,
              sheet |-> [sheet EXCEPT ![idx].eventId = eventId]]

\* updateJobStatus of the sheets service: cell F<index + 2>
updateJobStatus(sheet, jobId, status, storeFails) ==
    LET idx == FindIndex(getAllJobs(sheet), jobId)
    IN  IF idx = 0 THEN [ok |-> FALSE, wrote |-> 0, sheet |-> sheet]
        ELSE IF storeFails THEN [ok |-> FALSE, wrote |-> 1, sheet |-> sheet]
        ELSE [ok |-> TRUE, wrote |-> 1,
              sheet |-> [sheet EXCEPT ![idx].status = status]]

\* ----------------------------------------------------------------- calendar
MaxResults == 10

\* event.summary.includes(jobId): the title is `${job_id}: ${customer}`, with
\* job_id plain or derived; a derived title contains the plain id
SummaryIncludes(title, jobId) ==
    /\ title.base = jobId.base
    /\ jobId.date = NoDate \/ title.date = jobId.date

\* orderBy: 'startTime'
StartKey(e) == ParseDate(e.date) * 1440 + e.start

\* e is listed before o; events starting together come in id order, ascending
\* or descending (the service does not say which)
ListedBefore(e, o, tie) ==
    \/ StartKey(e) < StartKey(o)
    \/ /\ StartKey(e) = StartKey(o)
       /\ IF tie = "asc" THEN e.id <= o.id ELSE e.id >= o.id

RECURSIVE OrderByStart(_, _)
OrderByStart(S, tie) ==
    IF S = {} THEN <<>>
    ELSE LET first == CHOOSE e \in S : \A o \in S : ListedBefore(e, o, tie)
         IN  <<first>> \o OrderByStart(S \ {first}, tie)

\* calendar.events.list({calendarId, q, maxResults: 10, orderBy: 'startTime'})
eventsList(evs, calendarId, q, tie) ==
    LET all == OrderByStart({e \in evs : e.cal = calendarId /\ SummaryIncludes(e.title, q)}, tie)
    IN  SubSeq(all, 1, IF Len(all) < MaxResults THEN Len(all) ELSE MaxResults)

\* findExistingEvent: the first listed event whose summary includes the job id;
\* Null when there is none and when the list call fails (the catch returns null)
findExistingEvent(evs, calendarId, jobId, listFails, tie) ==
    IF listFails THEN Null
    ELSE LET items == SelectSeq(eventsList(evs, calendarId, jobId, tie),
                                LAMBDA e : SummaryIncludes(e.title, jobId))
         IN  IF items = <<>> THEN Null ELSE <<items[1]>>

\* -------------------------------------------------------------- sync engine
\* External-call failures a sync can meet: none, or one call failing while
\* the job of the given date is handled: the events.list of findExistingEvent
\* ("list"), the events.insert / events.update ("write"), or the values.update
\* of updateJobEventId ("store")
NoFailure == [kind |-> "none", date |-> NoDate]
Fails(f, kind, date) == f.kind = kind /\ f.date = date

\* the running state of one syncJobToCalendar call
SyncStart(sheet, evs, nextId) ==
    [sheet |-> sheet, events |-> evs, nextId |-> nextId, ret |-> "null",
     ids |-> <<>>, reads |-> 0, inserted |-> 0, updated |-> 0,
     calFailed |-> FALSE, searchFailed |-> 0, storeWrites |-> 0, wbFailed |-> 0]

\* the resource of the insert / update call
ComposeEvent(job, jobId, id, calendarId, startMin, endMin) ==
    LET isAllDay == job.time_window = W_AllDay
    IN  [id |-> id, cal |-> calendarId, title |-> jobId, date |-> job.date,
         allDay |-> isAllDay,
         start |-> IF isAllDay THEN 0 ELSE startMin,
         end   |-> IF isAllDay THEN 0 ELSE endMin]

\* variant: the error of updateJobEventId is thrown on to the caller
WriteBack_Rethrows(st, jobId, id, storeFails) ==
    LET u == updateJobEventId(st.sheet, jobId, id, storeFails)
    IN  [st EXCEPT !.sheet = u.sheet,
                   !.storeWrites = @ + u.wrote,
                   !.wbFailed = IF u.ok THEN @ ELSE @ + 1,
                   !.ret = IF u.ok THEN @ ELSE "raised"]

\* the write-back at the end of createSingleDateEvent: errors are logged only
WriteBack(st, jobId, id, storeFails) ==
    LET u == updateJobEventId(st.sheet, jobId, id, storeFails)
    IN  [st EXCEPT !.sheet = u.sheet,
                   !.storeWrites = @ + u.wrote,
                   !.wbFailed = IF u.ok THEN @ ELSE @ + 1]

\* createSingleDateEvent(job, calendarId); job.job_id is jobId.
\* st.ret becomes "event", "null" (no date) or "raised".
createSingleDateEvent(st, job, jobId, calendarId, f, tie) ==
    LET times    == ResolveTimes(job)
        startMin == MinuteOfDay(TimePart(times.start, T_0900))
        endMin   == MinuteOfDay(TimePart(times.end, T_1700))
        existing == findExistingEvent(st.events, calendarId, jobId,
                                      Fails(f, "list", job.date), tie)
        id       == IF existing # Null THEN existing[1].id ELSE st.nextId
        resource == ComposeEvent(job, jobId, id, calendarId, startMin, endMin)
        searched == [st EXCEPT !.reads = @ + 1,
                               !.searchFailed = IF Fails(f, "list", job.date)
                                                THEN @ + 1 ELSE @]
    IN  IF job.date = NoDate THEN [st EXCEPT !.ret = "null"]
        ELSE IF ~IsValidDate(job.date) \/ startMin = -1 \/ endMin = -1
            THEN [st EXCEPT !.ret = "raised"]
        ELSE IF Fails(f, "write", job.date)
            THEN [searched EXCEPT !.ret = "raised", !.calFailed = TRUE]
        ELSE IF existing # Null
            THEN WriteBack([searched EXCEPT
                               !.events = (@ \ {existing[1]}) \cup {resource},
                               !.updated = @ + 1,
                               !.ids = Append(@, id),
                               !.ret = "event"],
                           jobId, id, Fails(f, "store", job.date))
        ELSE WriteBack([searched EXCEPT
                           !.events = @ \cup {resource},
                           !.nextId = @ + 1,
                           !.inserted = @ + 1,
                           !.ids = Append(@, id),
                           !.ret = "event"],
                       jobId, id, Fails(f, "store", job.date))

\* the loop of createDateRangeEvents from day number n to endN
RECURSIVE RangeLoop(_, _, _, _, _, _, _)
RangeLoop(st, job, calendarId, n, endN, f, tie) ==
    IF n > endN THEN [st EXCEPT !.ret = "list"]
    ELSE LET dateStr  == FormatDate(n)
             dailyJob == [job EXCEPT !.date = dateStr]
             day      == createSingleDateEvent(st, dailyJob,
                                               DerivedId(job.job_id, dateStr),
                                               calendarId, f, tie)
         IN  IF day.ret = "raised" THEN day
             ELSE RangeLoop(day, job, calendarId, n + 1, endN, f, tie)

\* variant: the loop runs while currentDate < endDate
createDateRangeEvents_EndExclusive(st, job, calendarId, f, tie) ==
    IF job.start_date = NoDate \/ job.end_date = NoDate
        THEN [st EXCEPT !.ret = "raised"]
    ELSE IF ~IsValidDate(job.start_date) \/ ~IsValidDate(job.end_date)
        THEN [st EXCEPT !.ret = "raised"]
    ELSE RangeLoop(st, job, calendarId, ParseDate(job.start_date),
                   ParseDate(job.end_date) - 1, f, tie)

\* createDateRangeEvents(job, calendarId): throws when a date is missing and
\* when a date is not a date; otherwise the loop over the days
createDateRangeEvents(st, job, calendarId, f, tie) ==
    IF job.start_date = NoDate \/ job.end_date = NoDate
        THEN [st EXCEPT !.ret = "raised"]
    ELSE IF ~IsValidDate(job.start_date) \/ ~IsValidDate(job.end_date)
        THEN [st EXCEPT !.ret = "raised"]
    ELSE RangeLoop(st, job, calendarId, ParseDate(job.start_date),
                   ParseDate(job.end_date), f, tie)

\* variant: every job of date_type range goes to createDateRangeEvents
syncJobToCalendar_RangeByType(st, job, f, tie) ==
    LET teamName   == RepairTeam(job.team)
        calendarId == calendarIds(teamName)
    IN  IF calendarId = Undefined THEN [st EXCEPT !.ret = "null"]
        ELSE IF job.date_type = "range"
            THEN createDateRangeEvents(st, job, calendarId, f, tie)
        ELSE createSingleDateEvent(st, job, PlainId(job.job_id), calendarId, f, tie)

\* syncJobToCalendar(job): st.ret is "null" (no-op), "event", "list" or "raised"
syncJobToCalendar(st, job, f, tie) ==
    LET teamName   == RepairTeam(job.team)
        calendarId == calendarIds(teamName)
    IN  IF calendarId = Undefined THEN [st EXCEPT !.ret = "null"]
        ELSE IF job.date_type = "range" /\ job.start_date # NoDate /\ job.end_date # NoDate
            THEN createDateRangeEvents(st, job, calendarId, f, tie)
        ELSE createSingleDateEvent(st, job, PlainId(job.job_id), calendarId, f, tie)

\* ------------------------------------------------- drift detector, scheduler
VARIABLES runs,          \* the drift scans (runDailyAutoDetection calls)
          tasks,         \* the cron tasks created so far: "running" / "stopped"
          registry,      \* this.jobs.get('dailyAutoDetection'), 0 when absent
          faults         \* external calls that have failed so far

VARIABLES requests,      \* the POST /api/jobs requests in flight, by request slot
          issued         \* history: every job_id a record was created with, oldest first

vars == <<rows, events, nextEventId, lastOp, runs, tasks, registry, faults,
          requests, issued>>

\* how many creation requests may be in flight together
MaxRequests == 2

\* a request slot no handler is running in
IdleRequest == [pc |-> "idle", job_id |-> Null, data |-> Null]
NoRequests  == [q \in 1..MaxRequests |-> IdleRequest]

\* ----------------------------------------------------------- drift detector
Sentinel == "appointment-completed"        \* 'นัดหมายเรียบร้อยแล้ว'

\* calendarList.list(): the calendars the service identity reaches, by id
ReachableCalendars == {"calA", "calB", "personal", "shared"}

\* calendar.summary, lower-cased by isPersonalCalendar
CalendarSummary(c) ==
    CASE c = "personal" -> <<"m", "y", " ", "p", "e", "r", "s", "o", "n", "a", "l">>
      [] c = "shared"   -> <<"s", "h", "a", "r", "e", "d">>
      [] OTHER          -> <<"q", "u", "e", "u", "e">>

personalCalendarPatterns == { <<"p", "e", "r", "s", "o", "n", "a", "l">> }

isPersonalCalendar(calendarId) ==
    IF calendarId \in QueueCalendarIds THEN FALSE
    ELSE \E pattern \in personalCalendarPatterns :
             Includes(CalendarSummary(calendarId), pattern)

\* External-call failures one job of a scan can meet: "queueGet" (events.get
\* in the queue calendar fails, not with 404), "calendarList" (calendarList.list
\* fails), "otherGet" (events.get in the other calendars fails), "store" (the
\* status write fails)
DetectFaults == {"none", "queueGet", "calendarList", "otherGet", "store"}

\* variant: only calendars that isPersonalCalendar accepts are searched
searchEventInPersonalCalendars_PersonalOnly(evs, eventId, g) ==
    LET calendars == IF g = "calendarList" THEN {} ELSE ReachableCalendars
        hits == { c \in calendars \ QueueCalendarIds :
                    /\ g # "otherGet"
                    /\ isPersonalCalendar(c)
                    /\ \E e \in evs : e.id = eventId /\ e.cal = c }
    IN  IF hits = {} THEN [found |-> FALSE, calendarId |-> Undefined,
                           calendarName |-> Null, isPersonal |-> FALSE]
        ELSE LET c == CHOOSE h \in hits : TRUE
             IN  [found |-> TRUE, calendarId |-> c,
                  calendarName |-> CalendarSummary(c),
                  isPersonal |-> isPersonalCalendar(c)]

\* searchEventInPersonalCalendars(eventId, jobId)
searchEventInPersonalCalendars(evs, eventId, g) ==
    LET calendars == IF g = "calendarList" THEN {} ELSE ReachableCalendars
        hits == { c \in calendars \ QueueCalendarIds :
                    /\ g # "otherGet"
                    /\ \E e \in evs : e.id = eventId /\ e.cal = c }
    IN  IF hits = {} THEN [found |-> FALSE, calendarId |-> Undefined,
                           calendarName |-> Null, isPersonal |-> FALSE]
        ELSE LET c == CHOOSE h \in hits : TRUE      \* an event lives in one calendar
             IN  [found |-> TRUE, calendarId |-> c,
                  calendarName |-> CalendarSummary(c),
                  isPersonal |-> isPersonalCalendar(c)]

\* variant: the event is looked for in the other calendars only
checkEventMoved_SkipsQueueLookup(evs, originalEventId, queueCalendarId, g) ==
    IF g = "queueGet"
        THEN [moved |-> FALSE, deletedFromQueue |-> FALSE, error |-> "lookup failed",
              newCalendarId |-> Undefined, newCalendarName |-> Null]
    ELSE LET moveResult == searchEventInPersonalCalendars(evs, originalEventId, g)
         IN  [moved |-> moveResult.found, deletedFromQueue |-> TRUE, error |-> "",
              newCalendarId |-> moveResult.calendarId,
              newCalendarName |-> moveResult.calendarName]

\* variant: every failure of the lookup in the queue calendar counts as 404
checkEventMoved_AnyFailureIsNotFound(evs, originalEventId, queueCalendarId, g) ==
    IF g # "queueGet" /\ \E e \in evs : e.id = originalEventId /\ e.cal = queueCalendarId
        THEN [moved |-> FALSE, deletedFromQueue |-> FALSE, error |-> "",
              newCalendarId |-> Undefined, newCalendarName |-> Null]
    ELSE LET moveResult == searchEventInPersonalCalendars(evs, originalEventId, "none")
         IN  [moved |-> moveResult.found, deletedFromQueue |-> TRUE,
              error |-> IF g = "queueGet" THEN "lookup failed" ELSE "",
              newCalendarId |-> moveResult.calendarId,
              newCalendarName |-> moveResult.calendarName]

\* checkEventMoved(jobId, originalEventId, queueCalendarId)
checkEventMoved(evs, originalEventId, queueCalendarId, g) ==
    IF g = "queueGet"
        THEN [moved |-> FALSE, deletedFromQueue |-> FALSE, error |-> "lookup failed",
              newCalendarId |-> Undefined, newCalendarName |-> Null]
    ELSE IF \E e \in evs : e.id = originalEventId /\ e.cal = queueCalendarId
        THEN [moved |-> FALSE, deletedFromQueue |-> FALSE, error |-> "",
              newCalendarId |-> Undefined, newCalendarName |-> Null]
    ELSE LET moveResult == searchEventInPersonalCalendars(evs, originalEventId, g)
         IN  [moved |-> moveResult.found, deletedFromQueue |-> TRUE, error |-> "",
              newCalendarId |-> moveResult.calendarId,
              newCalendarName |-> moveResult.calendarName]

\* AutoDetectionService.updateJobStatus: getAllJobs, the job must be there,
\* then the sheets service's updateJobStatus
DetectionUpdateJobStatus(sheet, jobId, newStatus, storeFails) ==
    IF FindIndex(getAllJobs(sheet), PlainId(jobId)) = 0
    THEN [ok |-> FALSE, wrote |-> 0, sheet |-> sheet]
    ELSE updateJobStatus(sheet, PlainId(jobId), newStatus, storeFails)

NoResult(reason) ==
    [processed |-> FALSE, action |-> "", newStatus |-> "", reason |-> reason, error |-> ""]

\* processJobAutoDetection(job): the result it returns, the sheet afterwards,
\* and what it did (obs): the outcome of the lookup in the queue calendar
\* ("found", "notfound", "error", "none"), whether the event was found in
\* another calendar, the status writes it issued, and the message of the
\* external-call failure that ended it ("" when there was none)
processJobAutoDetection(sheet, evs, job, g) ==
    LET calendarEventId  == job.eventId
        queueCalendarId  == queueCalendars(job.team)
        moveResult == checkEventMoved(evs, calendarEventId, queueCalendarId, g)
        write      == DetectionUpdateJobStatus(sheet, job.job_id, Sentinel, g = "store")
        lookup     == IF moveResult.error # "" THEN "error"
                      ELSE IF moveResult.deletedFromQueue THEN "notfound" ELSE "found"
        quiet(reason) == [result |-> NoResult(reason), sheet |-> sheet,
                          obs |-> [lookup |-> "none", elsewhere |-> FALSE, writes |-> 0,
                                   failure |-> ""]]
        updated(reason) ==
            [result |-> IF write.ok
                        THEN [processed |-> TRUE, action |-> "status_updated",
                              newStatus |-> Sentinel, reason |-> reason, error |-> ""]
                        ELSE [NoResult(<<>>) EXCEPT !.error = "status update failed"],
             sheet  |-> write.sheet,
             obs    |-> [lookup |-> lookup, elsewhere |-> moveResult.moved,
                         writes |-> write.wrote,
                         failure |-> IF write.ok THEN "" ELSE "status update failed"]]
    IN  IF calendarEventId = NoEvent \/ job.team = Null
            THEN quiet(<<"No calendar event or team specified">>)
        ELSE IF queueCalendarId = Undefined
            THEN quiet(<<"No queue calendar configured for team">>)
        ELSE IF moveResult.moved /\ moveResult.newCalendarId # Undefined
            THEN updated(<<"Event moved to calendar", moveResult.newCalendarName>>)
        ELSE IF moveResult.deletedFromQueue /\ ~moveResult.moved
            THEN updated(<<"Event disappeared from queue calendar">>)
        ELSE [result |-> NoResult(<<"No changes detected">>), sheet |-> sheet,
              obs |-> [lookup |-> lookup, elsewhere |-> FALSE, writes |-> 0,
                       failure |-> moveResult.error]]

\* the filter of runDailyAutoDetection
TerminalStatuses == {"Completed", "Cancelled", Sentinel}
Monitored(job) ==
    /\ job.eventId # NoEvent
    /\ job.team # Null
    /\ job.status \notin TerminalStatuses

StatusOf(sheet, jobId) ==
    LET idx == FindIndex(sheet, PlainId(jobId))
    IN  IF idx = 0 THEN "" ELSE sheet[idx].status

\* a scan that has not been started; runs[0] is the on-demand scan, runs[t]
\* the scan started by cron task t
IdleRun == [pc |-> "idle", jobs |-> <<>>, idx |-> 0, details |-> <<>>,
            results |-> [totalChecked |-> 0, statusUpdated |-> 0, moved |-> 0,
                         deleted |-> 0, errors |-> 0]]
IdleRuns == [r \in 0..MaxTasks |-> IdleRun]

\* the head of runDailyAutoDetection: authenticate, read the jobs, filter.
\* A failure of either call is thrown to the caller: the scan aborts.
BeginScan(sheet, fails) ==
    IF fails THEN [IdleRun EXCEPT !.pc = "aborted"]
    ELSE LET jobsWithCalendar == SelectSeq(getAllJobs(sheet), Monitored)
         IN  [IdleRun EXCEPT !.pc = "running", !.jobs = jobsWithCalendar,
                             !.results.totalChecked = Len(jobsWithCalendar)]

\* the calendar an event lives in, "gone" when it is in none
WhereIs(evs, eventId) ==
    IF \E e \in evs : e.id = eventId
    THEN (CHOOSE e \in evs : e.id = eventId).cal
    ELSE "gone"

\* variant: a failure met while a job is processed ends the scan
ScanOne_AbortsOnFailure(run, sheet, evs, g) ==
    LET job == run.jobs[run.idx + 1]
        p   == processJobAutoDetection(sheet, evs, job, g)
        updatedNow == p.result.processed /\ p.result.action = "status_updated"
        entry == [jobId |-> job.job_id, result |-> p.result, obs |-> p.obs,
                  team |-> job.team, eventId |-> job.eventId,
                  eventCal |-> WhereIs(evs, job.eventId), fault |-> g,
                  statusBefore |-> StatusOf(sheet, job.job_id),
                  statusAfter |-> StatusOf(p.sheet, job.job_id)]
    IN  [run |-> [run EXCEPT
                    !.idx = @ + 1,
                    !.pc = IF p.obs.failure # "" THEN "aborted" ELSE @,
                    !.details = Append(@, entry),
                    !.results.statusUpdated = IF updatedNow THEN @ + 1 ELSE @,
                    !.results.moved =
                        IF updatedNow /\ p.result.newStatus = Sentinel THEN @ + 1 ELSE @,
                    !.results.deleted =
                        IF updatedNow /\ p.result.newStatus # Sentinel
                           /\ p.result.newStatus = "Cancelled" THEN @ + 1 ELSE @],
         sheet |-> p.sheet]

\* one iteration of the for loop of runDailyAutoDetection.  The try around
\* processJobAutoDetection catches what it throws; it throws nothing, because
\* processJobAutoDetection catches every error itself.  The entry pushed to
\* details is {jobId, result}; the other fields record the circumstances: the
\* job's team and eventId in the snapshot, the calendar the event was in, the
\* failure injected, and the job's status in the sheet before and after.
ScanOne(run, sheet, evs, g) ==
    LET job == run.jobs[run.idx + 1]
        p   == processJobAutoDetection(sheet, evs, job, g)
        updatedNow == p.result.processed /\ p.result.action = "status_updated"
        entry == [jobId |-> job.job_id, result |-> p.result, obs |-> p.obs,
                  team |-> job.team, eventId |-> job.eventId,
                  eventCal |-> WhereIs(evs, job.eventId), fault |-> g,
                  statusBefore |-> StatusOf(sheet, job.job_id),
                  statusAfter |-> StatusOf(p.sheet, job.job_id)]
    IN  [run |-> [run EXCEPT
                    !.idx = @ + 1,
                    !.details = Append(@, entry),
                    !.results.statusUpdated = IF updatedNow THEN @ + 1 ELSE @,
                    !.results.moved =
                        IF updatedNow /\ p.result.newStatus = Sentinel THEN @ + 1 ELSE @,
                    !.results.deleted =
                        IF updatedNow /\ p.result.newStatus # Sentinel
                           /\ p.result.newStatus = "Cancelled" THEN @ + 1 ELSE @],
         sheet |-> p.sheet]

\* ------------------------------------------------------------ the job sheet
\* String(n) of a natural number
DigitChar(d) ==
    CASE d = 0 -> "0" [] d = 1 -> "1" [] d = 2 -> "2" [] d = 3 -> "3" [] d = 4 -> "4"
      [] d = 5 -> "5" [] d = 6 -> "6" [] d = 7 -> "7" [] d = 8 -> "8" [] d = 9 -> "9"

RECURSIVE NatToStr(_)
NatToStr(n) == IF n < 10 THEN <<DigitChar(n)>>
               ELSE Append(NatToStr(n \div 10), DigitChar(n % 10))

\* String.prototype.padStart(6, '0')
RECURSIVE PadStart6(_)
PadStart6(s) == IF Len(s) < 6 THEN PadStart6(<<"0">> \o s) ELSE s

\* `JOB-${String(n).padStart(6, '0')}`
JobId(n) == <<"J", "O", "B", "-">> \o PadStart6(NatToStr(n))

\* parseInt(s): the number the leading digits of s spell, after leading blanks;
\* NaN when there is none.  (A signed number is below every maxId and has the
\* effect of NaN on getNextJobId.)
RECURSIVE DigitsValue(_, _)
DigitsValue(s, acc) ==
    IF s = <<>> \/ Head(s) \notin Digits THEN acc
    ELSE DigitsValue(Tail(s), 10 * acc + DigitVal(Head(s)))

ParseInt(s) ==
    LET t == TrimLeft(s)
    IN  IF t = <<>> \/ Head(t) \notin Digits THEN NaN ELSE DigitsValue(t, 0)

\* job_id.startsWith('JOB-')
StartsWithJOB(id) == Len(id) >= 4 /\ SubSeq(id, 1, 4) = <<"J", "O", "B", "-">>

\* the forEach of getNextJobId from job k on, with the maximum so far
RECURSIVE MaxIdLoop(_, _, _)
MaxIdLoop(jobs, k, maxId) ==
    IF k > Len(jobs) THEN maxId
    ELSE LET id    == jobs[k].job_id
             idNum == ParseInt(SubSeq(id, 5, Len(id)))
         IN  IF /\ id # Null
                /\ Trim(id) # <<>>
                /\ id # <<"/">>
                /\ StartsWithJOB(id)
                /\ idNum # NaN
                /\ idNum > maxId
             THEN MaxIdLoop(jobs, k + 1, idNum)
             ELSE MaxIdLoop(jobs, k + 1, maxId)

\* getNextJobId()
getNextJobId(sheet) == JobId(MaxIdLoop(getAllJobs(sheet), 1, 0) + 1)

JobIds == <<JobId(1), JobId(2), JobId(3)>>

SingleDate(d) == [date_type |-> "", date |-> d, start_date |-> NoDate, end_date |-> NoDate]
DateRange(s, e) == [date_type |-> "range", date |-> NoDate, start_date |-> s, end_date |-> e]

\* a row of the Jobs sheet as getAllJobs returns it (the columns the engine reads)
JobRow(id, team, status, sched, start_time, end_time, time_window) ==
    [job_id |-> id, team |-> team, status |-> status, eventId |-> NoEvent,
     date_type |-> sched.date_type, date |-> sched.date,
     start_date |-> sched.start_date, end_date |-> sched.end_date,
     start_time |-> start_time, end_time |-> end_time, time_window |-> time_window]

\* the job data of a row: everything but the back-reference the sync writes
JobData(job) == [job EXCEPT !.eventId = NoEvent]

\* the dates a sync of the job handles
JobDates(job) ==
    IF job.date_type = "range" /\ job.start_date # NoDate /\ job.end_date # NoDate
    THEN IF IsValidDate(job.start_date) /\ IsValidDate(job.end_date)
         THEN { FormatDate(n) : n \in ParseDate(job.start_date)..ParseDate(job.end_date) }
         ELSE {}
    ELSE IF job.date = NoDate \/ ~IsValidDate(job.date) THEN {} ELSE {job.date}

\* ------------------------------------------------------------------ actions
None == [op |-> "none"]

\* op is a sync of the same job data that met no external-call failure
IsCleanSyncOf(op, job) == op.op = "sync" /\ op.clean /\ op.job = JobData(job)

\* A caller (POST /api/jobs/:jobId/sync-calendar and the other routes) reads
\* row i and runs syncJobToCalendar on it
Sync(i) ==
    \E f \in {NoFailure} \cup
             { [kind |-> k, date |-> d] : k \in {"list", "write", "store"},
                                          d \in JobDates(rows[i]) },
       tie \in {"asc", "desc"} :
      \E st \in {syncJobToCalendar(SyncStart(rows, events, nextEventId), rows[i], f, tie)} :
        LET job == rows[i]
        IN  /\ st.nextId <= MaxEvents + 1
            /\ f # NoFailure => faults < MaxFaults
            /\ faults' = IF f = NoFailure THEN faults ELSE faults + 1
            /\ rows' = st.sheet
            /\ events' = st.events
            /\ nextEventId' = st.nextId
            /\ lastOp' = [op |-> "sync", job |-> JobData(job),
                          clean |-> f = NoFailure,
                          again |-> IsCleanSyncOf(lastOp, job),
                          before |-> IF IsCleanSyncOf(lastOp, job) THEN lastOp.ids ELSE <<>>,
                          cal |-> calendarIds(RepairTeam(job.team)),
                          ret |-> st.ret, ids |-> st.ids, reads |-> st.reads,
                          inserted |-> st.inserted, updated |-> st.updated,
                          calFailed |-> st.calFailed,
                          searchFailed |-> st.searchFailed,
                          storeWrites |-> st.storeWrites, wbFailed |-> st.wbFailed]
            /\ UNCHANGED <<runs, tasks, registry, requests, issued>>

\* POST /api/jobs/update-data with {date: d}: updateJobData writes cell B of the row
UpdateJobDate(i) ==
    \E d \in DateStrings :
        /\ rows[i].date # NoDate
        /\ rows[i].date # d
        /\ rows' = [rows EXCEPT ![FindIndex(getAllJobs(rows), PlainId(rows[i].job_id))].date = d]
        /\ lastOp' = [op |-> "updateJobData", job_id |-> rows[i].job_id]
        /\ UNCHANGED <<events, nextEventId, runs, tasks, registry, faults, requests, issued>>

\* a person drags an event into another calendar (the event keeps its id)
OtherCalendars == {"personal", "shared"}

HumanMove(e) ==
    \E c \in OtherCalendars :
        /\ e.cal \in QueueCalendarIds
        /\ events' = (events \ {e}) \cup {[e EXCEPT !.cal = c]}
        /\ lastOp' = [op |-> "human"]
        /\ UNCHANGED <<rows, nextEventId, runs, tasks, registry, faults, requests, issued>>

\* a person deletes an event
HumanDelete(e) ==
    /\ events' = events \ {e}
    /\ lastOp' = [op |-> "human"]
    /\ UNCHANGED <<rows, nextEventId, runs, tasks, registry, faults, requests, issued>>

\* --------------------------------------------- specification of the sync engine
TimeChoices ==
    { <<T_0900, T_1200, W_AM>>, <<Null, Null, Null>>, <<T_9_00, T_0_00, Null>>,
      <<T_2500, T_1200, W_AM>>, <<T_noon, Null, W_AllDay>> }

Schedules ==
    {SingleDate(d) : d \in DateStrings \cup {NoDate}}
        \cup {DateRange(s, e) : s \in DateStrings, e \in DateStrings}


\* team and times of the first job: every team with plain times, team A with
\* every choice of times
Profiles ==
    { <<team, <<T_0900, T_1200, W_AM>> >> : team \in {TeamA, CorruptA, CorruptC, TeamC, Null} }
        \cup { <<TeamA, t>> : t \in TimeChoices }

InitSync ==
    /\ \E p \in Profiles, sched \in Schedules :
            rows = << JobRow(JobIds[1], p[1], "Scheduled", sched, p[2][1], p[2][2], p[2][3]),
                      JobRow(JobIds[2], NewQueue, "Scheduled", SingleDate(FormatDate(FirstDay)),
                             T_1300, T_1700, W_PM) >>
    /\ events = {}
    /\ nextEventId = 1
    /\ lastOp = None
    /\ runs = IdleRuns
    /\ tasks = <<>>
    /\ registry = 0
    /\ faults = 0
    /\ requests = NoRequests
    /\ issued = <<>>

NextSync ==
    \/ \E i \in 1..Len(rows) : Sync(i)
    \/ \E i \in 1..Len(rows) : UpdateJobDate(i)

Spec == InitSync /\ [][NextSync]_vars

\* ------------------------------------------------------ drift-scan actions
Finished(run) == run.pc \in {"idle", "done", "aborted"}

\* variant: an on-demand scan waits until no other scan is in progress
RunImmediateCheck_WaitsForRuns ==
    \E fails \in BOOLEAN :
        /\ \A r \in DOMAIN runs : Finished(runs[r])
        /\ fails => faults < MaxFaults
        /\ runs' = [runs EXCEPT ![0] = BeginScan(rows, fails)]
        /\ faults' = IF fails THEN faults + 1 ELSE faults
        /\ lastOp' = [op |-> "runImmediateCheck"]
        /\ UNCHANGED <<rows, events, nextEventId, tasks, registry, requests, issued>>

\* POST /api/auto-detection/run-now: runImmediateCheck starts a scan
RunImmediateCheck ==
    \E fails \in BOOLEAN :
        /\ Finished(runs[0])
        /\ fails => faults < MaxFaults
        /\ runs' = [runs EXCEPT ![0] = BeginScan(rows, fails)]
        /\ faults' = IF fails THEN faults + 1 ELSE faults
        /\ lastOp' = [op |-> "runImmediateCheck"]
        /\ UNCHANGED <<rows, events, nextEventId, tasks, registry, requests, issued>>

\* scan r handles its next job; g is the external-call failure it meets, and
\* only a failure that the job's processing actually runs into is taken
ScanJob(r) ==
    \E g \in DetectFaults :
        /\ runs[r].pc = "running"
        /\ runs[r].idx < Len(runs[r].jobs)
        /\ g # "none" =>
              /\ faults < MaxFaults
              /\ ScanOne(runs[r], rows, events, g) # ScanOne(runs[r], rows, events, "none")
        /\ \E step \in {ScanOne(runs[r], rows, events, g)} :
              /\ runs' = [runs EXCEPT ![r] = step.run]
              /\ rows' = step.sheet
        /\ faults' = IF g = "none" THEN faults ELSE faults + 1
        /\ lastOp' = [op |-> "scanJob"]
        /\ UNCHANGED <<events, nextEventId, tasks, registry, requests, issued>>

\* the loop is over: runDailyAutoDetection returns its results
FinishScan(r) ==
    /\ runs[r].pc = "running"
    /\ runs[r].idx = Len(runs[r].jobs)
    /\ runs' = [runs EXCEPT ![r].pc = "done"]
    /\ lastOp' = [op |-> "scanDone"]
    /\ UNCHANGED <<rows, events, nextEventId, tasks, registry, faults, requests, issued>>

\* ---------------------------------------------------------------- scheduler
LiveTasks == { t \in 1..Len(tasks) : tasks[t] = "running" }

\* startDailyAutoDetection: cron.schedule(...), this.jobs.set(name, task),
\* task.start().  A task registered before stays as it is.
startDailyAutoDetection ==
    /\ Len(tasks) < MaxTasks
    /\ tasks' = Append(tasks, "running")
    /\ registry' = Len(tasks) + 1
    /\ lastOp' = [op |-> "start"]
    /\ UNCHANGED <<rows, events, nextEventId, runs, faults, requests, issued>>

\* stopDailyAutoDetection: stops and forgets the task the map holds
stopDailyAutoDetection ==
    /\ IF registry # 0
       THEN /\ tasks' = [tasks EXCEPT ![registry] = "stopped"]
            /\ registry' = 0
            /\ lastOp' = [op |-> "stop", returned |-> TRUE]
       ELSE /\ UNCHANGED <<tasks, registry>>
            /\ lastOp' = [op |-> "stop", returned |-> FALSE]
    /\ UNCHANGED <<rows, events, nextEventId, runs, faults, requests, issued>>

\* getSchedulerStatus
getSchedulerStatus ==
    /\ lastOp' = [op |-> "status",
                  dailyAutoDetectionActive |-> registry # 0,
                  nextRun |-> IF registry # 0 THEN "Daily at 10:00 AM Bangkok time"
                              ELSE "Not scheduled"]
    /\ UNCHANGED <<rows, events, nextEventId, runs, tasks, registry, faults, requests, issued>>

\* 10:00 Bangkok time: every live cron task runs its callback, which starts
\* a scan; a failed start is caught and logged by the callback
DailyFire ==
    \E bad \in {{}} \cup { {t} : t \in LiveTasks } :
        /\ LiveTasks # {}
        /\ \A t \in LiveTasks : Finished(runs[t])
        /\ bad # {} => faults < MaxFaults
        /\ runs' = [r \in DOMAIN runs |->
                       IF r \in LiveTasks THEN BeginScan(rows, r \in bad) ELSE runs[r]]
        /\ faults' = faults + Cardinality(bad)
        /\ lastOp' = [op |-> "fire", started |-> Cardinality(LiveTasks)]
        /\ UNCHANGED <<rows, events, nextEventId, tasks, registry, requests, issued>>

\* ------------------------------------------ specification of the drift scan
\* the sheet and the calendar after every row has been synced once, in order
RECURSIVE SyncRows(_, _)
SyncRows(st, i) ==
    IF i > Len(st.sheet) THEN st
    ELSE SyncRows(syncJobToCalendar(st, st.sheet[i], NoFailure, "asc"), i + 1)

Synced(sheet) == SyncRows(SyncStart(sheet, {}, 1), 1)

InitDrift ==
    /\ \E team1 \in {TeamA, CorruptA}, status2 \in {"Scheduled", "Done", "Cancelled"},
          d3 \in {FormatDate(FirstDay), NoDate} :
        \E st \in { Synced(<< JobRow(JobIds[1], team1, "Scheduled",
                                     SingleDate(FormatDate(FirstDay)), T_0900, T_1200, W_AM),
                              JobRow(JobIds[2], NewQueue, status2,
                                     SingleDate(FormatDate(FirstDay + 1)), T_1300, T_1700, W_PM),
                              JobRow(JobIds[3], TeamB, "Rescheduled",
                                     SingleDate(d3), Null, Null, W_AllDay) >>) } :
            /\ rows = st.sheet
            /\ events = st.events
            /\ nextEventId = st.nextId
    /\ lastOp = None
    /\ runs = IdleRuns
    /\ tasks = <<>>
    /\ registry = 0
    /\ faults = 0
    /\ requests = NoRequests
    /\ issued = <<>>

NextDrift ==
    \/ RunImmediateCheck
    \/ ScanJob(0)
    \/ FinishScan(0)
    \/ \E e \in events : HumanMove(e)
    \/ \E e \in events : HumanDelete(e)

SpecDrift == InitDrift /\ [][NextDrift]_vars

\* -------------------------------------------- specification of the scheduler
InitSched ==
    /\ \E st \in { Synced(<< JobRow(JobIds[1], TeamA, "Scheduled",
                                    SingleDate(FormatDate(FirstDay)), T_0900, T_1200, W_AM) >>) } :
            /\ rows = st.sheet
            /\ events = st.events
            /\ nextEventId = st.nextId
    /\ lastOp = None
    /\ runs = IdleRuns
    /\ tasks = <<>>
    /\ registry = 0
    /\ faults = 0
    /\ requests = NoRequests
    /\ issued = <<>>

NextSched ==
    \/ startDailyAutoDetection
    \/ stopDailyAutoDetection
    \/ getSchedulerStatus
    \/ DailyFire
    \/ RunImmediateCheck
    \/ \E r \in DOMAIN runs : ScanJob(r)
    \/ \E r \in DOMAIN runs : FinishScan(r)
    \/ \E e \in events : HumanMove(e)

SpecSched == InitSched /\ [][NextSched]_vars
\* ------------------------------------------- specification of the job routes
\* schedules as a sheet row can hold them: the well-formed ones, a range with
\* a date missing, a range or a date that is no date, a range the wrong way
\* round (in Schedules already), and a range row that also has a date
RouteSchedules ==
    Schedules
        \cup { [date_type |-> "range", date |-> NoDate,
                start_date |-> FormatDate(FirstDay), end_date |-> NoDate],
               [date_type |-> "range", date |-> NoDate,
                start_date |-> NoDate, end_date |-> FormatDate(FirstDay)],
               [date_type |-> "range", date |-> FormatDate(FirstDay),
                start_date |-> FormatDate(FirstDay), end_date |-> NoDate],
               DateRange(BadDate, FormatDate(FirstDay)),
               SingleDate(BadDate) }

\* the filter of POST /api/calendar/sync-missing
NeedsCalendar(job) ==
    /\ job.status \in {"Scheduled", "Rescheduled"}
    /\ job.team # Null
    /\ job.date # NoDate \/ (job.start_date # NoDate /\ job.end_date # NoDate)
    /\ job.eventId = NoEvent

\* the loop of POST /api/calendar/sync-missing over jobsToSync from job k on:
\* a truthy result counts as successful, null and a thrown error as failed.
\* acc holds the sync state (sheet, calendar) and the results so far.
\* the bookkeeping of one job of sync-missing, st being the outcome of its sync
SyncMissingItem(acc, job, st) ==
    LET status == CASE st.ret = "raised" -> "error"
                    [] st.ret = "null"   -> "failed"
                    [] OTHER             -> "success"
    IN  [st |-> st,
         successful |-> IF status = "success" THEN acc.successful + 1 ELSE acc.successful,
         failed |-> IF status = "success" THEN acc.failed ELSE acc.failed + 1,
         details |-> Append(acc.details,
                            [job_id |-> job.job_id, status |-> status,
                             ret |-> st.ret, ids |-> st.ids])]

RECURSIVE SyncMissingLoop(_, _, _, _, _)
SyncMissingLoop(acc, jobsToSync, k, f, tie) ==
    IF k > Len(jobsToSync) THEN acc
    ELSE SyncMissingLoop(
             SyncMissingItem(acc, jobsToSync[k],
                 syncJobToCalendar(
                     [SyncStart(acc.st.sheet, acc.st.events, acc.st.nextId)
                         EXCEPT !.reads = acc.st.reads], jobsToSync[k], f, tie)),
             jobsToSync, k + 1, f, tie)

\* POST /api/calendar/sync-missing
SyncMissing ==
    \E f \in {NoFailure} \cup
             { [kind |-> k, date |-> d] : k \in {"list", "write", "store"},
                                          d \in UNION { JobDates(rows[i]) : i \in 1..Len(rows) } },
       tie \in {"asc", "desc"} :
      \E out \in { SyncMissingLoop([st |-> SyncStart(rows, events, nextEventId),
                                     successful |-> 0, failed |-> 0, details |-> <<>>],
                                    SelectSeq(getAllJobs(rows), NeedsCalendar), 1, f, tie) } :
        /\ out.st.nextId <= MaxEvents + 1
        /\ f # NoFailure => faults < MaxFaults
        /\ faults' = IF f = NoFailure THEN faults ELSE faults + 1
        /\ rows' = out.st.sheet
        /\ events' = out.st.events
        /\ nextEventId' = out.st.nextId
        /\ lastOp' = [op |-> "syncMissing", successful |-> out.successful,
                      failed |-> out.failed, details |-> out.details]
        /\ UNCHANGED <<runs, tasks, registry, requests, issued>>

\* team and times of the job: those of Profiles, and team A with a start
\* time or an end time that is no time
RouteProfiles ==
    Profiles \cup { <<TeamA, <<T_noon, T_1200, W_AM>> >>,
                     <<TeamA, <<T_0900, T_noon, W_AM>> >> }

\* ------------------------------------------------------------- job store routes
MaxIssued == 3      \* job ids handed to records in a behaviour

\* the literals fixColumnMismapping looks for
StatusLiterals == {"New", "Scheduled", "Rescheduled", "Cancelled", "Need Info",
                   "In progress", "Done", "Closed", Sentinel}
ZoneNames      == {"Bangkok", "Bangna", "LatKrabang", "SamutPrakan", "Nonthaburi"}

\* a row of the sheet with its zone cell (column E)
StoreRow(id, zone, team, status, sched, eventId) ==
    [job_id |-> id, zone |-> zone, team |-> team, status |-> status,
     eventId |-> eventId,
     date_type |-> sched.date_type, date |-> sched.date,
     start_date |-> sched.start_date, end_date |-> sched.end_date,
     start_time |-> Null, end_time |-> Null, time_window |-> Null]

\* createJob(jobData): the row appended to the sheet
createJob(sheet, jobData) ==
    Append(sheet, [StoreRow(jobData.job_id, jobData.zone, jobData.team,
                            IF jobData.status = "" THEN "New" ELSE jobData.status,
                            jobData.sched, jobData.eventId)
                     EXCEPT !.start_time = jobData.start_time,
                            !.end_time = jobData.end_time])

\* the columns updateJobData can write
fieldColumnMap == {"job_id", "date", "time_window", "team", "zone", "status",
                   "eventId", "start_time", "end_time"}

\* updateJobData(jobId, updateData): the first row of that job_id gets the cells
updateJobData(sheet, jobId, updateData) ==
    LET idx == FindIndex(getAllJobs(sheet), PlainId(jobId))
        written == DOMAIN updateData \cap fieldColumnMap
    IN  IF idx = 0 \/ written = {} THEN [ok |-> FALSE, sheet |-> sheet]
        ELSE [ok |-> TRUE,
              sheet |-> [sheet EXCEPT ![idx] =
                            [c \in DOMAIN sheet[idx] |->
                                IF c \in written THEN updateData[c] ELSE sheet[idx][c]]]]

\* clearAllJobs(): every row below the header is cleared
clearAllJobs(sheet) == [cleared |-> Len(sheet), sheet |-> <<>>]

\* the needsFix test of fixColumnMismapping
NeedsFix(job) == job.zone \in StatusLiterals \/ job.status \in ZoneNames

\* the loop of fixColumnMismapping over the jobs read at its start, from job k
RECURSIVE FixLoop(_, _, _, _)
FixLoop(sheet, jobs, k, fixedCount) ==
    IF k > Len(jobs) THEN [sheet |-> sheet, fixed |-> fixedCount, ret |-> "ok"]
    ELSE IF NeedsFix(jobs[k])
        THEN LET u == updateJobData(sheet, jobs[k].job_id,
                                    [zone |-> jobs[k].status, status |-> jobs[k].zone])
             IN  IF u.ok THEN FixLoop(u.sheet, jobs, k + 1, fixedCount + 1)
                 ELSE [sheet |-> sheet, fixed |-> fixedCount, ret |-> "raised"]
    ELSE FixLoop(sheet, jobs, k + 1, fixedCount)

fixColumnMismapping(sheet) == FixLoop(sheet, getAllJobs(sheet), 1, 0)

\* the job_id column, in sheet order
IdColumn(sheet) == [k \in 1..Len(sheet) |-> sheet[k].job_id]

\* request bodies of POST /api/jobs
CreateInputs ==
    { [team |-> TeamA, zone |-> "Bangkok", status |-> "",
       sched |-> SingleDate(NoDate), eventId |-> NoEvent,
       start_time |-> Null, end_time |-> Null],
      [team |-> TeamA, zone |-> "Bangna", status |-> "Scheduled",
       sched |-> SingleDate(FormatDate(FirstDay)), eventId |-> NoEvent,
       start_time |-> Null, end_time |-> Null] }

InFlight == { q \in 1..MaxRequests : requests[q].pc # "idle" }

\* POST /api/jobs up to the answer of getNextJobId
PostJobGetId(q) ==
    \E d \in CreateInputs :
        /\ requests[q].pc = "idle"
        /\ Len(issued) + Cardinality(InFlight) < MaxIssued
        /\ requests' = [requests EXCEPT ![q] =
                           [pc |-> "gotId", job_id |-> getNextJobId(rows), data |-> d]]
        /\ lastOp' = [op |-> "getNextJobId", ids |-> IdColumn(rows),
                      job_id |-> getNextJobId(rows)]
        /\ UNCHANGED <<rows, events, nextEventId, runs, tasks, registry, faults, issued>>

\* POST /api/jobs from createJob on: the row, the calendar sync of a scheduled
\* job (its errors are logged only) and the eventId of a single event
PostJobCreate(q) ==
    LET jobId   == requests[q].job_id
        d       == requests[q].data
        created == createJob(rows, [job_id |-> jobId] @@ d)
        newJob  == created[Len(created)]
        shouldSyncToCalendar ==
            /\ newJob.status \in {"Scheduled", "Rescheduled"}
            /\ newJob.team # Null
            /\ newJob.date # NoDate \/ (newJob.start_date # NoDate /\ newJob.end_date # NoDate)
        start   == SyncStart(created, events, nextEventId)
    IN  /\ requests[q].pc = "gotId"
        /\ \E st \in {IF shouldSyncToCalendar
                      THEN syncJobToCalendar(start, newJob, NoFailure, "asc")
                      ELSE start} :
            /\ st.nextId <= MaxEvents + 1
            /\ rows' = IF st.ret = "event"
                       THEN updateJobEventId(st.sheet, PlainId(jobId), st.ids[1], FALSE).sheet
                       ELSE st.sheet
            /\ events' = st.events
            /\ nextEventId' = st.nextId
        /\ issued' = Append(issued, jobId)
        /\ requests' = [requests EXCEPT ![q] = IdleRequest]
        /\ lastOp' = [op |-> "createJob", job_id |-> jobId, row |-> Len(rows) + 1,
                      taken |-> \E k \in 1..Len(rows) : rows[k].job_id = jobId]
        /\ UNCHANGED <<runs, tasks, registry, faults>>

\* POST /api/database/clear
ClearAllJobs ==
    /\ rows' = clearAllJobs(rows).sheet
    /\ lastOp' = [op |-> "clearAllJobs", cleared |-> clearAllJobs(rows).cleared]
    /\ UNCHANGED <<events, nextEventId, runs, tasks, registry, faults, requests, issued>>

\* request bodies of POST /api/jobs/update-data
Patches == { [job_id |-> <<"/">>], [status |-> "Cancelled"] }

\* POST /api/jobs/update-data with {jobId, updates}
PatchJob(i) ==
    \E updates \in Patches :
        LET u == updateJobData(rows, rows[i].job_id, updates)
        IN  /\ rows[i].job_id # Null
            /\ u.ok
            /\ rows' = u.sheet
            /\ lastOp' = [op |-> "updateJobData", job_id |-> rows[i].job_id]
            /\ UNCHANGED <<events, nextEventId, runs, tasks, registry, faults,
                           requests, issued>>

\* POST /api/database/fix-column-mapping
FixColumnMismapping ==
    LET r == fixColumnMismapping(rows)
    IN  /\ rows' = r.sheet
        /\ lastOp' = [op |-> "fixColumnMismapping", before |-> rows,
                      fixed |-> r.fixed, ret |-> r.ret]
        /\ UNCHANGED <<events, nextEventId, runs, tasks, registry, faults,
                       requests, issued>>

\* job ids a sheet holds when the service starts: generated ones, the empty
\* cell, the '/' placeholder, a foreign prefix and a suffix that is not a number
ForeignId   == <<"J", "B", "-", "0", "0", "0", "0", "0", "7">>
SuffixedId  == JobId(3) \o <<"x">>
\* the rows held at the start as <<job_id, zone, status>>: zone and status in
\* their domains, or swapped
StoredRows  == { <<JobId(1), "Bangkok", "New">>, <<JobId(2), "Cancelled", "Bangkok">>,
                 <<Null, "Bangkok", "New">>, <<<<"/">>, "Cancelled", "Bangkok">>,
                 <<ForeignId, "Bangkok", "New">>, <<SuffixedId, "Bangkok", "New">> }

InitStore ==
    /\ \E n \in 0..2 :
         \E held \in [1..n -> StoredRows] :
            /\ \A i, j \in 1..n : i # j /\ held[i][1] = held[j][1]
                                     => ~StartsWithJOB(held[i][1])
            /\ rows = [k \in 1..n |-> StoreRow(held[k][1], held[k][2], TeamA, held[k][3],
                                               SingleDate(NoDate), NoEvent)]
            /\ issued = [k \in 1..n |-> held[k][1]]
    /\ events = {}
    /\ nextEventId = 1
    /\ lastOp = None
    /\ runs = IdleRuns
    /\ tasks = <<>>
    /\ registry = 0
    /\ faults = 0
    /\ requests = NoRequests

NextStore ==
    \/ \E q \in 1..MaxRequests : PostJobGetId(q)
    \/ \E q \in 1..MaxRequests : PostJobCreate(q)
    \/ ClearAllJobs
    \/ \E i \in 1..Len(rows) : PatchJob(i)
    \/ FixColumnMismapping

SpecStore == InitStore /\ [][NextStore]_vars

\* ----------------------------------------------------------- store updates
MaxStored    == 2        \* rows of the sheet the updates run against
\* values of the created_date cells, as days; the column is the one of the
\* documented Jobs sheet, and the key getAllJobs sorts by
CreatedDates == {1, 2}

\* the rows of a sheet whose header has no created_date column (created = <<>>)
\* or has one, with created[k] in the cell of row k
DatedRows(n, created) ==
    [k \in 1..n |->
        LET row == StoreRow(JobId(k), "Bangkok", TeamA, "New", SingleDate(NoDate), NoEvent)
        IN  IF created = <<>> THEN row ELSE [created_date |-> created[k]] @@ row]

\* sheets.updateJobStatus(jobId, status)
UpdateJobStatus ==
    \E jobId \in {rows[k].job_id : k \in 1..Len(rows)} \cup {ForeignId},
       status \in {"Cancelled"}, storeFails \in BOOLEAN :
        \E r \in {updateJobStatus(rows, PlainId(jobId), status, storeFails)} :
            /\ rows' = r.sheet
            /\ lastOp' = [op |-> "storeUpdate", fn |-> "updateJobStatus",
                          job_id |-> jobId, before |-> rows, ok |-> r.ok]
            /\ UNCHANGED <<events, nextEventId, runs, tasks, registry, faults,
                           requests, issued>>

\* sheets.updateJobEventId(jobId, eventId)
UpdateJobEventId ==
    \E jobId \in {rows[k].job_id : k \in 1..Len(rows)} \cup {ForeignId},
       eventId \in {1}, storeFails \in BOOLEAN :
        \E r \in {updateJobEventId(rows, PlainId(jobId), eventId, storeFails)} :
            /\ rows' = r.sheet
            /\ lastOp' = [op |-> "storeUpdate", fn |-> "updateJobEventId",
                          job_id |-> jobId, before |-> rows, ok |-> r.ok]
            /\ UNCHANGED <<events, nextEventId, runs, tasks, registry, faults,
                           requests, issued>>

\* sheets.updateJobData(jobId, updateData)
UpdateJobData ==
    \E jobId \in {rows[k].job_id : k \in 1..Len(rows)} \cup {ForeignId},
       updateData \in { [zone |-> "Bangna", team |-> TeamB] } :
        \E r \in {updateJobData(rows, jobId, updateData)} :
            /\ rows' = r.sheet
            /\ lastOp' = [op |-> "storeUpdate", fn |-> "updateJobData",
                          job_id |-> jobId, before |-> rows, ok |-> r.ok]
            /\ UNCHANGED <<events, nextEventId, runs, tasks, registry, faults,
                           requests, issued>>

InitUpdate ==
    /\ \E n \in 1..MaxStored :
         \E created \in {<<>>} \cup [1..n -> CreatedDates] :
            rows = DatedRows(n, created)
    /\ events = {}
    /\ nextEventId = 1
    /\ lastOp = None
    /\ runs = IdleRuns
    /\ tasks = <<>>
    /\ registry = 0
    /\ faults = 0
    /\ requests = NoRequests
    /\ issued = <<>>

NextUpdate ==
    \/ UpdateJobStatus
    \/ UpdateJobEventId
    \/ UpdateJobData

SpecUpdate == InitUpdate /\ [][NextUpdate]_vars

\* ------------------------------------------------ calendar routes, continued
MaxJobs   == 2      \* rows the sheet holds after an import from the calendar
UtcOffset == 420    \* '+07:00', in minutes

\* deleteJobFromCalendar(job): st.ret is "null" (no calendar for the team),
\* "true" (deleted), "false" (no event found) or "raised"
deleteJobFromCalendar(st, job, f, tie) ==
    LET calendarId    == calendarIds(job.team)
        existingEvent == findExistingEvent(st.events, calendarId, PlainId(job.job_id),
                                           f.kind = "list", tie)
        searched      == [st EXCEPT !.reads = @ + 1]
    IN  IF calendarId = Undefined THEN [st EXCEPT !.ret = "null"]
        ELSE IF existingEvent = Null THEN [searched EXCEPT !.ret = "false"]
        ELSE IF f.kind = "write"
            THEN [searched EXCEPT !.ret = "raised", !.calFailed = TRUE]
        ELSE [searched EXCEPT !.events = @ \ {existingEvent[1]}, !.ret = "true"]

\* PUT /api/jobs/:jobId/status: the status cell, then the calendar follows the
\* status; an error of the calendar step is logged and success is answered
SetStatus(i) ==
    \E status \in {"Scheduled", "Rescheduled", "Cancelled"},
       f \in {NoFailure} \cup
             { [kind |-> k, date |-> d] : k \in {"list", "write"}, d \in JobDates(rows[i]) },
       tie \in {"asc", "desc"} :
        LET jobId      == PlainId(rows[i].job_id)
            u          == updateJobStatus(rows, jobId, status, FALSE)
            updatedJob == u.sheet[FindIndex(getAllJobs(rows), jobId)]
            start      == SyncStart(u.sheet, events, nextEventId)
        IN  \E st \in {IF status \in {"Scheduled", "Rescheduled"}
                       THEN syncJobToCalendar(start, updatedJob, f, tie)
                       ELSE deleteJobFromCalendar(start, updatedJob, f, tie)} :
                /\ st.nextId <= MaxEvents + 1
                /\ f # NoFailure => faults < MaxFaults
                /\ faults' = IF f = NoFailure THEN faults ELSE faults + 1
                /\ rows' = st.sheet
                /\ events' = st.events
                /\ nextEventId' = st.nextId
                /\ lastOp' = [op |-> "setStatus", job |-> JobData(updatedJob),
                              status |-> status, success |-> TRUE,
                              clean |-> f = NoFailure, ret |-> st.ret]
                /\ UNCHANGED <<runs, tasks, registry, requests, issued>>

\* checkSpecificJob(jobId); scanAfter is the status the job has after a
\* runDailyAutoDetection over the same sheet and calendars
CheckJob(i) ==
    \E g \in DetectFaults :
        LET jobs == getAllJobs(rows)
            job  == jobs[FindIndex(jobs, PlainId(rows[i].job_id))]
        IN  \E r \in {processJobAutoDetection(rows, events, job, g)} :
            /\ g # "none" => faults < MaxFaults
            /\ faults' = IF g = "none" THEN faults ELSE faults + 1
            /\ rows' = r.sheet
            /\ lastOp' = [op |-> "checkSpecificJob", job_id |-> job.job_id,
                          monitored |-> Monitored(job),
                          statusBefore |-> job.status,
                          statusAfter |-> StatusOf(r.sheet, job.job_id),
                          scanAfter |-> IF Monitored(job)
                                        THEN StatusOf(r.sheet, job.job_id)
                                        ELSE job.status]
            /\ UNCHANGED <<events, nextEventId, runs, tasks, registry, requests, issued>>

\* DELETE /api/jobs/:jobId/calendar: answer is "none" (the job has no eventId),
\* "deleted" (event deleted, eventId cleared), "failed" (deleteJobFromCalendar
\* returned null or false: status 500) or "error" (something threw: status 500)
DeleteCalendar(i) ==
    \E f \in {NoFailure} \cup
             { [kind |-> k, date |-> d] : k \in {"list", "write", "store"},
                                          d \in JobDates(rows[i]) },
       tie \in {"asc", "desc"} :
        LET jobId == rows[i].job_id
            jobs  == getAllJobs(rows)
            job   == jobs[FindIndex(jobs, PlainId(jobId))]
        IN  \E st \in {deleteJobFromCalendar(SyncStart(rows, events, nextEventId),
                                             job, f, tie)},
               u \in {updateJobEventId(rows, PlainId(jobId), NoEvent, f.kind = "store")} :
                /\ f # NoFailure => faults < MaxFaults /\ job.eventId # NoEvent
                /\ faults' = IF f = NoFailure THEN faults ELSE faults + 1
                /\ rows' = IF job.eventId # NoEvent /\ st.ret = "true" THEN u.sheet ELSE rows
                /\ events' = IF job.eventId # NoEvent THEN st.events ELSE events
                /\ lastOp' = [op |-> "deleteCalendar", job_id |-> jobId,
                              eventId |-> job.eventId, status |-> job.status,
                              eventCal |-> WhereIs(events, job.eventId),
                              clean |-> f = NoFailure,
                              answer |-> IF job.eventId = NoEvent THEN "none"
                                         ELSE IF st.ret = "raised" THEN "error"
                                         ELSE IF st.ret # "true" THEN "failed"
                                         ELSE IF u.ok THEN "deleted" ELSE "error"]
                /\ UNCHANGED <<nextEventId, runs, tasks, registry, requests, issued>>

\* a person puts an appointment of their own into the queue calendar of team A
ManualTitle == <<"v", "i", "s", "i", "t">>
HumanCreate ==
    /\ nextEventId <= MaxEvents
    /\ events' = events \cup
                 { [id |-> nextEventId, cal |-> "calA",
                    title |-> [base |-> ManualTitle, date |-> NoDate],
                    date |-> FormatDate(FirstDay), allDay |-> FALSE,
                    start |-> 600, end |-> 660] }
    /\ nextEventId' = nextEventId + 1
    /\ lastOp' = [op |-> "humanCreate"]
    /\ UNCHANGED <<rows, runs, tasks, registry, faults, requests, issued>>

\* eventSummary.match(/JOB-(\d+)/): 'JOB-' and the digits after it, Null without a match
RECURSIVE DigitRun(_)
DigitRun(s) == IF s = <<>> \/ Head(s) \notin Digits THEN <<>>
               ELSE <<Head(s)>> \o DigitRun(Tail(s))

MatchJobId(summary) ==
    LET hits == { p \in 1..Len(summary) :
                    /\ p + 4 <= Len(summary)
                    /\ SubSeq(summary, p, p + 3) = <<"J", "O", "B", "-">>
                    /\ summary[p + 4] \in Digits }
        first == CHOOSE p \in hits : \A o \in hits : p <= o
    IN  IF hits = {} THEN Null
        ELSE <<"J", "O", "B", "-">> \o DigitRun(SubSeq(summary, first + 4, Len(summary)))

\* eventStart.toTimeString().slice(0, 5), the server running on Bangkok time
FormatTime(m) == PadStart2(NatToStr(m \div 60)) \o <<":">> \o PadStart2(NatToStr(m % 60))

\* eventStart.toISOString().split('T')[0]: the day of the instant in UTC
UtcDate(event) ==
    IF event.start < UtcOffset THEN FormatDate(ParseDate(event.date) - 1) ELSE event.date

\* the events of one calendar, in the order of events.list
ListEvents(evs, calendarId, tie) == OrderByStart({e \in evs : e.cal = calendarId}, tie)

\* the loop of sync-from-calendar over the events of one team calendar
RECURSIVE ImportLoop(_, _, _, _, _)
ImportLoop(acc, existingJobs, teamName, items, k) ==
    IF k > Len(items) THEN acc
    ELSE LET event        == items[k]
             jobId        == MatchJobId(event.title.base)
             new          == [date |-> UtcDate(event),
                              start_time |-> FormatTime(event.start),
                              end_time |-> FormatTime(event.end)]
             existingJob  == existingJobs[FindIndex(existingJobs, PlainId(jobId))]
             changed      == IF event.allDay THEN {}
                             ELSE { c \in DOMAIN new : existingJob[c] # new[c] }
             u            == updateJobData(acc.sheet, jobId, [c \in changed |-> new[c]])
             newJobId     == getNextJobId(acc.sheet)
             step ==
                IF jobId # Null
                THEN IF FindIndex(existingJobs, PlainId(jobId)) # 0
                     THEN IF changed = {} THEN acc
                          ELSE IF u.ok THEN [acc EXCEPT !.sheet = u.sheet, !.updated = @ + 1]
                          ELSE [acc EXCEPT !.errors = @ + 1]
                     ELSE [acc EXCEPT !.skipped = @ + 1]
                ELSE IF event.allDay THEN acc
                ELSE [acc EXCEPT
                        !.sheet = createJob(@, [job_id |-> newJobId, team |-> teamName,
                                                zone |-> "unspecified", status |-> "Scheduled",
                                                sched |-> SingleDate(new.date),
                                                eventId |-> event.id,
                                                start_time |-> new.start_time,
                                                end_time |-> new.end_time]),
                        !.issued = Append(@, newJobId),
                        !.created = @ + 1]
         IN  ImportLoop([step EXCEPT !.found = @ + 1], existingJobs, teamName, items, k + 1)

\* POST /api/calendar/sync-from-calendar
SyncFromCalendar ==
    \E tie \in {"asc", "desc"} :
        LET existingJobs == getAllJobs(rows)
            acc0 == [sheet |-> rows, issued |-> issued, found |-> 0, updated |-> 0,
                     created |-> 0, skipped |-> 0, errors |-> 0]
            accA == ImportLoop(acc0, existingJobs, NewQueue,
                               ListEvents(events, calendarIds(NewQueue), tie), 1)
        IN  \E acc \in {ImportLoop(accA, existingJobs, Quote,
                                   ListEvents(events, calendarIds(Quote), tie), 1)} :
                /\ Len(acc.sheet) <= MaxJobs
                /\ rows' = acc.sheet
                /\ issued' = acc.issued
                /\ lastOp' = [op |-> "syncFromCalendar", found |-> acc.found,
                              updated |-> acc.updated, created |-> acc.created,
                              skipped |-> acc.skipped, errors |-> acc.errors]
                /\ UNCHANGED <<events, nextEventId, runs, tasks, registry, faults, requests>>

InitRoutes ==
    /\ \E p \in RouteProfiles, sched \in RouteSchedules,
          status \in {"New", "Scheduled"} :
            rows = << JobRow(JobIds[1], p[1], status, sched, p[2][1], p[2][2], p[2][3]) >>
    /\ events = {}
    /\ nextEventId = 1
    /\ lastOp = None
    /\ runs = IdleRuns
    /\ tasks = <<>>
    /\ registry = 0
    /\ faults = 0
    /\ requests = NoRequests
    /\ issued = <<>>

NextRoutes ==
    \/ \E i \in 1..Len(rows) : Sync(i)
    \/ SyncMissing
    \/ \E i \in 1..Len(rows) : SetStatus(i)
    \/ \E i \in 1..Len(rows) : CheckJob(i)

SpecRoutes == InitRoutes /\ [][NextRoutes]_vars

\* the import from the calendar: a sheet with one scheduled job or none, people
\* adding appointments, syncs of the jobs and imports
InitImport ==
    /\ \E sched \in {SingleDate(FormatDate(FirstDay)),
                      DateRange(FormatDate(FirstDay), FormatDate(FirstDay + NumDays - 1))},
          t \in {<<T_0900, T_1200, W_AM>>, <<T_9_00, T_0_00, Null>>, <<Null, Null, W_AllDay>>} :
            rows \in { <<>>, << JobRow(JobIds[1], TeamA, "Scheduled", sched, t[1], t[2], t[3]) >> }
    /\ events = {}
    /\ nextEventId = 1
    /\ lastOp = None
    /\ runs = IdleRuns
    /\ tasks = <<>>
    /\ registry = 0
    /\ faults = 0
    /\ requests = NoRequests
    /\ issued = <<>>

NextImport ==
    \/ \E i \in 1..Len(rows) : Sync(i)
    \/ HumanCreate
    \/ SyncFromCalendar

SpecImport == InitImport /\ [][NextImport]_vars

\* ------------------------------------------------------------ time normalizer
MaxTimeLen == 5     \* characters of a raw time value

\* the characters raw time values are made of: digits, the colon, a blank, a letter
TimeChars  == {"0", "1", "7", "9", ":", " ", "x"}
TimeInputs == UNION { [1..n -> TimeChars] : n \in 0..MaxTimeLen }

\* the call normalizeTime(time) on the value at hand
NormalizeTime ==
        /\ lastOp.op = "time"
        /\ lastOp' = [op |-> "normalizeTime", time |-> lastOp.time,
                      ret |-> normalizeTime(lastOp.time)]
        /\ UNCHANGED <<rows, events, nextEventId, runs, tasks, registry, faults,
                       requests, issued>>

InitNormalize ==
    /\ rows = <<>>
    /\ events = {}
    /\ nextEventId = 1
    /\ lastOp \in { [op |-> "time", time |-> time] : time \in TimeInputs }
    /\ runs = IdleRuns
    /\ tasks = <<>>
    /\ registry = 0
    /\ faults = 0
    /\ requests = NoRequests
    /\ issued = <<>>

NextNormalize == NormalizeTime

SpecNormalize == InitNormalize /\ [][NextNormalize]_vars

\* --------------------------------------------------------- end of lifecycle
InitDelete ==
    /\ \E team1 \in {TeamA, CorruptA} :
        \E st \in { Synced(<< JobRow(JobIds[1], team1, "Scheduled",
                                     SingleDate(FormatDate(FirstDay)), T_0900, T_1200, W_AM),
                              JobRow(JobIds[2], NewQueue, "Scheduled",
                                     SingleDate(FormatDate(FirstDay)), T_1300, T_1700, W_PM) >>) } :
            /\ rows = st.sheet
            /\ events = st.events
            /\ nextEventId = st.nextId
    /\ lastOp = None
    /\ runs = IdleRuns
    /\ tasks = <<>>
    /\ registry = 0
    /\ faults = 0
    /\ requests = NoRequests
    /\ issued = <<>>

NextDelete ==
    \/ \E i \in 1..Len(rows) : DeleteCalendar(i)
    \/ \E i \in 1..Len(rows) : CheckJob(i)
    \/ \E e \in events : HumanMove(e)
    \/ \E e \in events : HumanDelete(e)

SpecDelete == InitDelete /\ [][NextDelete]_vars

\* ------------------------------------------- cancellation during a drift scan
\* one synced job; its status is changed while drift scans run
InitCancel ==
    /\ \E st \in { Synced(<< JobRow(JobIds[1], TeamA, "Scheduled",
                                    SingleDate(FormatDate(FirstDay)), T_0900, T_1200, W_AM) >>) } :
            /\ rows = st.sheet
            /\ events = st.events
            /\ nextEventId = st.nextId
    /\ lastOp = None
    /\ runs = IdleRuns
    /\ tasks = <<>>
    /\ registry = 0
    /\ faults = 0
    /\ requests = NoRequests
    /\ issued = <<>>

NextCancel ==
    \/ RunImmediateCheck
    \/ ScanJob(0)
    \/ FinishScan(0)
    \/ \E i \in 1..Len(rows) : SetStatus(i)

SpecCancel == InitCancel /\ [][NextCancel]_vars

\* --------------------------------------------------------- schedule changes
\* The schedule cells of row i (date, date_type, start_date, end_date) are
\* changed in the Jobs sheet; getAllJobs hands the next sync whatever the
\* cells hold
EditSchedule(i) ==
    \E sched \in Schedules :
        /\ [c \in DOMAIN sched |-> rows[i][c]] # sched
        /\ rows' = [rows EXCEPT ![i] = [c \in DOMAIN rows[i] |->
                                          IF c \in DOMAIN sched THEN sched[c]
                                          ELSE rows[i][c]]]
        /\ lastOp' = [op |-> "editSchedule", job_id |-> rows[i].job_id]
        /\ UNCHANGED <<events, nextEventId, runs, tasks, registry, faults, requests, issued>>

\* one synced job of team A with any schedule
InitReschedule ==
    /\ \E sched \in Schedules :
         \E st \in { Synced(<< JobRow(JobIds[1], TeamA, "Scheduled", sched,
                                      T_0900, T_1200, W_AM) >>) } :
            /\ rows = st.sheet
            /\ events = st.events
            /\ nextEventId = st.nextId
    /\ lastOp = None
    /\ runs = IdleRuns
    /\ tasks = <<>>
    /\ registry = 0
    /\ faults = 0
    /\ requests = NoRequests
    /\ issued = <<>>

NextReschedule ==
    \/ \E i \in 1..Len(rows) : EditSchedule(i)
    \/ \E i \in 1..Len(rows) : Sync(i)

SpecReschedule == InitReschedule /\ [][NextReschedule]_vars

\* ----------------------------------------------------------- column repair
\* a sheet of two records whose zone and status cells each hold a zone name
\* or a status literal
InitRepair ==
    /\ \E cells \in [1..2 -> {"Bangkok", "Bangna", "New", "Cancelled"}
                                \X {"Bangkok", "Bangna", "New", "Cancelled"}] :
            rows = [k \in 1..2 |-> StoreRow(JobId(k), cells[k][1], TeamA, cells[k][2],
                                            SingleDate(NoDate), NoEvent)]
    /\ events = {}
    /\ nextEventId = 1
    /\ lastOp = None
    /\ runs = IdleRuns
    /\ tasks = <<>>
    /\ registry = 0
    /\ faults = 0
    /\ requests = NoRequests
    /\ issued = <<>>

NextRepair == FixColumnMismapping

SpecRepair == InitRepair /\ [][NextRepair]_vars

\* ------------------------------------------------- status-based sync of all
\* the bookkeeping of one job of sync-all-status; st is the outcome of the
\* calendar call made for the job, or the state as it was when none was made
SyncAllStatusItem(acc, job, st) ==
    LET wantsEvent == job.status \in {"Scheduled", "Rescheduled"}
        called == IF wantsEvent
                  THEN job.team # Null
                       /\ (job.date # NoDate
                           \/ (job.start_date # NoDate /\ job.end_date # NoDate))
                  ELSE job.status = "Cancelled" /\ job.eventId # NoEvent
        action == CASE called /\ st.ret = "raised"                     -> "error"
                    [] called /\ wantsEvent /\ st.ret # "null"         -> "created/updated"
                    [] called /\ ~wantsEvent /\ st.ret = "true"        -> "deleted"
                    [] ~wantsEvent /\ job.status # "Cancelled"         -> "no_action"
                    [] OTHER                                           -> ""
        bump(counter, a) == IF action = a THEN acc[counter] + 1 ELSE acc[counter]
    IN  [st |-> IF called THEN st ELSE acc.st,
         calendars_created |-> bump("calendars_created", "created/updated"),
         calendars_deleted |-> bump("calendars_deleted", "deleted"),
         no_action |-> bump("no_action", "no_action"),
         failed |-> bump("failed", "error"),
         details |-> IF action = "" THEN acc.details
                     ELSE Append(acc.details, [job_id |-> job.job_id, action |-> action])]

\* the loop of sync-all-status over allJobs from job k on
RECURSIVE SyncAllStatusLoop(_, _, _, _, _)
SyncAllStatusLoop(acc, allJobs, k, f, tie) ==
    IF k > Len(allJobs) THEN acc
    ELSE SyncAllStatusLoop(
             SyncAllStatusItem(acc, allJobs[k],
                 IF allJobs[k].status = "Cancelled"
                 THEN deleteJobFromCalendar(
                          SyncStart(acc.st.sheet, acc.st.events, acc.st.nextId),
                          allJobs[k], f, tie)
                 ELSE syncJobToCalendar(
                          SyncStart(acc.st.sheet, acc.st.events, acc.st.nextId),
                          allJobs[k], f, tie)),
             allJobs, k + 1, f, tie)

\* POST /api/calendar/sync-all-status
SyncAllStatus ==
    \E f \in {NoFailure} \cup
             { [kind |-> k, date |-> d] : k \in {"list", "write", "store"},
                                          d \in UNION { JobDates(rows[i]) : i \in 1..Len(rows) } },
       tie \in {"asc", "desc"} :
      \E out \in { SyncAllStatusLoop([st |-> SyncStart(rows, events, nextEventId),
                                       calendars_created |-> 0, calendars_deleted |-> 0,
                                       no_action |-> 0, failed |-> 0, details |-> <<>>],
                                      getAllJobs(rows), 1, f, tie) } :
        /\ out.st.nextId <= MaxEvents + 1
        /\ f # NoFailure => faults < MaxFaults
        /\ faults' = IF f = NoFailure THEN faults ELSE faults + 1
        /\ rows' = out.st.sheet
        /\ events' = out.st.events
        /\ nextEventId' = out.st.nextId
        /\ lastOp' = [op |-> "syncAllStatus", total_processed |-> Len(rows),
                      calendars_created |-> out.calendars_created,
                      calendars_deleted |-> out.calendars_deleted,
                      no_action |-> out.no_action, failed |-> out.failed,
                      details |-> out.details]
        /\ UNCHANGED <<runs, tasks, registry, requests, issued>>

InitBatch ==
    /\ \E team1 \in {TeamA, TeamC}, status1 \in {"Scheduled", "Cancelled", "Done"},
          sched1 \in {SingleDate(FormatDate(FirstDay)), SingleDate(NoDate)} :
            rows = << JobRow(JobIds[1], team1, status1, sched1, T_0900, T_1200, W_AM),
                      JobRow(JobIds[2], NewQueue, "Scheduled",
                             SingleDate(FormatDate(FirstDay)), T_1300, T_1700, W_PM) >>
    /\ events = {}
    /\ nextEventId = 1
    /\ lastOp = None
    /\ runs = IdleRuns
    /\ tasks = <<>>
    /\ registry = 0
    /\ faults = 0
    /\ requests = NoRequests
    /\ issued = <<>>

NextBatch ==
    \/ SyncAllStatus
    \/ SyncMissing
    \/ \E i \in 1..Len(rows) : SetStatus(i)

SpecBatch == InitBatch /\ [][NextBatch]_vars

\* ------------------------------------------------------ the two scan triggers
\* the server after app.listen: startAllSchedulers has registered and started
\* the recurring task; one job is synced to its queue calendar
InitTriggers ==
    /\ \E st \in { Synced(<< JobRow(JobIds[1], TeamA, "Scheduled",
                                    SingleDate(FormatDate(FirstDay)), T_0900, T_1200, W_AM) >>) } :
            /\ rows = st.sheet
            /\ events = st.events
            /\ nextEventId = st.nextId
    /\ lastOp = None
    /\ runs = IdleRuns
    /\ tasks = <<"running">>
    /\ registry = 1
    /\ faults = 0
    /\ requests = NoRequests
    /\ issued = <<>>

NextTriggers ==
    \/ DailyFire
    \/ RunImmediateCheck
    \/ \E r \in DOMAIN runs : ScanJob(r)
    \/ \E r \in DOMAIN runs : FinishScan(r)
    \/ \E e \in events : HumanMove(e)
    \/ \E e \in events : HumanDelete(e)

SpecTriggers == InitTriggers /\ [][NextTriggers]_vars

\* ---------------------------------------------------------- concurrent syncs
\* POST /api/jobs/:jobId/sync-calendar of a single-date job, up to the answer
\* of the events.list call of findExistingEvent: the request holds the job it
\* read and the event the search returned
SyncSearch(q) ==
    \E i \in 1..Len(rows), tie \in {"asc", "desc"} :
        LET job        == rows[i]
            calendarId == calendarIds(RepairTeam(job.team))
        IN  /\ requests[q].pc = "idle"
            /\ job.team # Null /\ job.date # NoDate /\ job.date_type # "range"
            /\ calendarId # Undefined
            /\ requests' = [requests EXCEPT ![q] =
                   [pc |-> "searched", job_id |-> job.job_id,
                    data |-> [job |-> job,
                              existingEvent |-> findExistingEvent(events, calendarId,
                                                   PlainId(job.job_id), FALSE, tie)]]]
            /\ lastOp' = [op |-> "syncSearch", job_id |-> job.job_id]
            /\ UNCHANGED <<rows, events, nextEventId, runs, tasks, registry, faults, issued>>

\* the rest of that sync: events.update of the event found or events.insert,
\* then the write-back of the event id
SyncWrite(q) ==
    LET job           == requests[q].data.job
        existingEvent == requests[q].data.existingEvent
        jobId         == PlainId(job.job_id)
        calendarId    == calendarIds(RepairTeam(job.team))
        times         == ResolveTimes(job)
        id            == IF existingEvent # Null THEN existingEvent[1].id ELSE nextEventId
        resource      == ComposeEvent(job, jobId, id, calendarId,
                                      MinuteOfDay(TimePart(times.start, T_0900)),
                                      MinuteOfDay(TimePart(times.end, T_1700)))
    IN  /\ requests[q].pc = "searched"
        /\ existingEvent = Null => nextEventId <= MaxEvents
        /\ \E st \in {WriteBack([SyncStart(rows, events, nextEventId) EXCEPT
                                    !.events = {e \in @ : e.id # id} \cup {resource},
                                    !.nextId = IF existingEvent = Null THEN @ + 1 ELSE @,
                                    !.ret = "event"],
                                jobId, id, FALSE)} :
              /\ rows' = st.sheet
              /\ events' = st.events
              /\ nextEventId' = st.nextId
        /\ requests' = [requests EXCEPT ![q] = IdleRequest]
        /\ lastOp' = [op |-> "syncWrite", job_id |-> job.job_id,
                      inserted |-> existingEvent = Null, id |-> id]
        /\ UNCHANGED <<runs, tasks, registry, faults, issued>>

InitRace ==
    /\ \E t \in TimeChoices \ { <<T_2500, T_1200, W_AM>> } :
         rows = << JobRow(JobIds[1], TeamA, "Scheduled", SingleDate(FormatDate(FirstDay)),
                          t[1], t[2], t[3]),
                   JobRow(JobIds[2], NewQueue, "Scheduled", SingleDate(FormatDate(FirstDay)),
                          T_1300, T_1700, W_PM) >>
    /\ events = {}
    /\ nextEventId = 1
    /\ lastOp = None
    /\ runs = IdleRuns
    /\ tasks = <<>>
    /\ registry = 0
    /\ faults = 0
    /\ requests = NoRequests
    /\ issued = <<>>

NextRace ==
    \/ \E q \in 1..MaxRequests : SyncSearch(q)
    \/ \E q \in 1..MaxRequests : SyncWrite(q)

SpecRace == InitRace /\ [][NextRace]_vars

\* ------------------------------------------------------------ event composer
\* the times and windows a job may carry when it is synced
ComposeStarts  == {Null, T_0900, T_9_00, T_0800, T_1300, T_1700, T_noon}
ComposeEnds    == {Null, T_0_00, T_0000, T_1200,
                   <<"0">>, <<"0", ":", "0">>, <<"0", "0", "0", "0">>}
ComposeWindows == {Null, W_AM, W_PM, W_AllDay, <<"a", "m">>}

InitCompose ==
    /\ \E start_time \in ComposeStarts, end_time \in ComposeEnds,
          time_window \in ComposeWindows :
            rows = << JobRow(JobIds[1], TeamA, "Scheduled", SingleDate(FormatDate(FirstDay)),
                             start_time, end_time, time_window) >>
    /\ events = {}
    /\ nextEventId = 1
    /\ lastOp = None
    /\ runs = IdleRuns
    /\ tasks = <<>>
    /\ registry = 0
    /\ faults = 0
    /\ requests = NoRequests
    /\ issued = <<>>

NextCompose == \E i \in 1..Len(rows) : Sync(i)

SpecCompose == InitCompose /\ [][NextCompose]_vars

\* ================================================== properties: sync engine
\* C1: sequential idempotence of sync.  For a job with a mapped team and a
\* single usable date, when a sync that met no external-call failure directly
\* follows another such sync of the same job data (nothing else happened in
\* between), the queue calendar holds exactly one event whose title carries
\* the job_id, and both syncs returned the same event id.
C1_SyncTwiceOneEvent ==
    (/\ lastOp.op = "sync"
     /\ lastOp.again /\ lastOp.clean
     /\ RepairTeam(lastOp.job.team) \in {TeamA, TeamB, NewQueue, Quote}
     /\ lastOp.job.date_type # "range" /\ lastOp.job.date # NoDate
     /\ lastOp.ret = "event")
    => /\ Cardinality({ e \in events : /\ e.cal = lastOp.cal
                                       /\ e.title.base = lastOp.job.job_id }) = 1
       /\ lastOp.ids = lastOp.before

\* C2: range expansion.  A sync of a job with date_type = range and
\* start_date <= end_date that returns its list has made exactly one event
\* for every day from start_date to end_date inclusive: end - start + 1
\* events, none dated on another day, with pairwise distinct derived
\* identifiers job_id-date.
C2_RangeExpansion ==
    (/\ lastOp.op = "sync"
     /\ lastOp.ret = "list"
     /\ lastOp.job.date_type = "range"
     /\ ParseDate(lastOp.job.start_date) <= ParseDate(lastOp.job.end_date))
    => LET first == ParseDate(lastOp.job.start_date)
           last  == ParseDate(lastOp.job.end_date)
           ids   == lastOp.ids
           made  == { e \in events : \E k \in 1..Len(ids) : e.id = ids[k] }
       IN  /\ Len(ids) = last - first + 1
           /\ Cardinality(made) = last - first + 1
           /\ \A k \in 1..Len(ids) :
                  \E e \in made : /\ e.id = ids[k]
                                  /\ ParseDate(e.date) = first + k - 1
           /\ \A e \in made :
                  /\ e.cal = lastOp.cal
                  /\ ParseDate(e.date) \in first..last
                  /\ e.title = DerivedId(lastOp.job.job_id, e.date)
           /\ \A e \in made, o \in made : e # o => e.title # o.title

\* a range over the end of July has been expanded
C2_Witness ==
    /\ lastOp.op = "sync"
    /\ lastOp.ret = "list"
    /\ lastOp.job.start_date = <<7, 31>>
    /\ lastOp.job.end_date = <<8, 1>>
    /\ Len(lastOp.ids) = 2

\* C9: the write-back is best-effort.  When the calendar insert / update of a
\* sync succeeded and updateJobEventId failed, the sync did not raise, it
\* returned the event(s), and every returned event is in the queue calendar.
C9_WriteBackBestEffort ==
    (/\ lastOp.op = "sync"
     /\ ~lastOp.calFailed
     /\ lastOp.wbFailed > 0)
    => /\ lastOp.ret \in {"event", "list"}
       /\ Len(lastOp.ids) = lastOp.inserted + lastOp.updated
       /\ Len(lastOp.ids) >= lastOp.wbFailed
       /\ \A k \in 1..Len(lastOp.ids) :
              \E e \in events : e.id = lastOp.ids[k] /\ e.cal = lastOp.cal

\* a single-date sync whose values.update failed after the event was written
C9_Witness ==
    /\ lastOp.op = "sync"
    /\ lastOp.job.date_type # "range"
    /\ lastOp.storeWrites = 1
    /\ lastOp.wbFailed = 1
    /\ lastOp.ret = "event"
    /\ \E i \in 1..Len(rows) : /\ rows[i].job_id = lastOp.job.job_id
                               /\ rows[i].eventId = NoEvent

C3_LinkedNoWrite ==
    \A r \in DOMAIN runs : \A k \in 1..Len(runs[r].details) :
        LET d == runs[r].details[k]
        IN  (/\ d.eventId # NoEvent
             /\ d.team # Null
             /\ queueCalendars(d.team) # Undefined
             /\ d.fault # "queueGet"
             /\ d.eventCal = queueCalendars(d.team))
            => /\ d.obs.writes = 0
               /\ d.statusAfter = d.statusBefore
               /\ ~d.result.processed

\* one scan met a linked job and a job whose event had left the queue calendar
C3_Witness ==
    \E k \in 1..Len(runs[0].details), j \in 1..Len(runs[0].details) :
        /\ runs[0].details[k].eventCal = queueCalendars(runs[0].details[k].team)
        /\ runs[0].details[k].fault = "none"
        /\ runs[0].details[k].statusAfter = "Scheduled"
        /\ runs[0].details[j].statusAfter = Sentinel

C5_BatchRobustness ==
    /\ [](\A r \in DOMAIN runs :
            /\ runs[r].pc = "aborted" => runs[r].idx = 0 /\ runs[r].details = <<>>
            /\ runs[r].pc = "running" =>
                  /\ Len(runs[r].details) = runs[r].idx
                  /\ runs[r].idx <= Len(runs[r].jobs)
            /\ runs[r].pc = "done" =>
                  /\ Len(runs[r].details) = Len(runs[r].jobs)
                  /\ runs[r].results.totalChecked = Len(runs[r].jobs)
            /\ \A k \in 1..Len(runs[r].details) :
                  runs[r].details[k].jobId = runs[r].jobs[k].job_id)
    /\ [][\A r \in DOMAIN runs :
            (runs[r].pc = "running" /\ runs'[r] # runs[r]) =>
                \/ /\ runs'[r].pc = "running"
                   /\ runs'[r].idx = runs[r].idx + 1
                   /\ runs'[r].jobs = runs[r].jobs
                \/ /\ runs'[r].pc = "done"
                   /\ runs[r].idx = Len(runs[r].jobs)
                   /\ runs'[r].details = runs[r].details]_vars

\* a finished scan of several jobs in which a job met a failure and a job
\* after it was processed
C5_Witness ==
    /\ runs[0].pc = "done"
    /\ \E k \in 1..Len(runs[0].details), j \in 1..Len(runs[0].details) :
          /\ k < j
          /\ runs[0].details[k].obs.failure # ""
          /\ runs[0].details[j].obs.failure = ""
          /\ runs[0].details[j].obs.lookup # "none"

\* C6: failure accounting of the drift scan.  In the summary a scan returns,
\* errors is the number of jobs of the run whose processing failed on an
\* external call (the queue-calendar lookup failing otherwise than by
\* not-found, or the status write failing), and each of them has a detail
\* entry with its job id and the failure message.
C6_ErrorsCounted ==
    \A r \in DOMAIN runs :
        runs[r].pc = "done" =>
            LET failed == { k \in 1..Len(runs[r].details) :
                              runs[r].details[k].fault \in {"queueGet", "store"} }
            IN  /\ runs[r].results.errors = Cardinality(failed)
                /\ \A k \in failed :
                      /\ runs[r].details[k].jobId = runs[r].jobs[k].job_id
                      /\ runs[r].details[k].result.error # ""
\* ===================================================== properties: scheduler
\* C7: scheduler start is idempotent.  After any sequence of start calls at
\* most one recurring task is live, and a daily fire time starts at most one
\* scheduled drift scan.
C7_AtMostOneLiveTask ==
    /\ Cardinality(LiveTasks) <= 1
    /\ lastOp.op = "fire" => lastOp.started <= 1

\* C8: scheduler stop removes the registration.  After stop returns no
\* recurring task is live (so nothing fires until the next start), whatever
\* starts and stops came before; and the status report says the task is
\* registered exactly when a recurring task is live.
C8_StopLeavesNoLiveTask ==
    /\ lastOp.op = "stop" => LiveTasks = {}
    /\ lastOp.op = "fire" => registry # 0
    /\ lastOp.op = "status" => (lastOp.dailyAutoDetectionActive <=> LiveTasks # {})
C12_UnparseableTimeRaises ==
    (/\ lastOp.op = "sync"
     /\ lastOp.cal # Undefined
     /\ JobDates(lastOp.job) # {}
     /\ \/ normalizeTime(ResolveTimes(lastOp.job).start) = Null
        \/ normalizeTime(ResolveTimes(lastOp.job).end) = Null)
    => /\ lastOp.ret = "raised"
       /\ lastOp.inserted = 0 /\ lastOp.updated = 0
\* C13: sync outcomes are distinguishable.  A completed sync ends in one of
\* three outcomes: events (one event, or a list with an event for each id it
\* names), a no-op (null, nothing written), or a raised failure; and the
\* batch caller POST /api/calendar/sync-missing never reports a job whose
\* sync was a no-op as a failed item.
C13_OutcomesDistinguished ==
    /\ lastOp.op = "sync" =>
          /\ lastOp.ret \in {"event", "list", "null", "raised"}
          /\ lastOp.ret = "event" => Len(lastOp.ids) = 1
          /\ lastOp.ret = "null" =>
                /\ lastOp.ids = <<>>
                /\ lastOp.inserted = 0 /\ lastOp.updated = 0
    /\ lastOp.op = "syncMissing" =>
          /\ \A k \in 1..Len(lastOp.details) :
                lastOp.details[k].ret = "null" => lastOp.details[k].status # "failed"
          /\ lastOp.failed =
                Cardinality({ k \in 1..Len(lastOp.details) : lastOp.details[k].ret = "raised" })


\* C16: scheduled jobs have their events.  Whenever a status change to
\* Scheduled or Rescheduled was answered with success for a job that has a
\* team with a queue calendar and a schedule, that calendar holds exactly one
\* event of the job for each scheduled day.
C16_ScheduledJobsHaveEvents ==
    (/\ lastOp.op = "setStatus"
     /\ lastOp.success
     /\ lastOp.status \in {"Scheduled", "Rescheduled"}
     /\ lastOp.job.team # Null
     /\ calendarIds(RepairTeam(lastOp.job.team)) # Undefined
     /\ JobDates(lastOp.job) # {})
    => \A d \in JobDates(lastOp.job) :
           Cardinality({ e \in events :
                           /\ e.cal = calendarIds(RepairTeam(lastOp.job.team))
                           /\ e.title.base = lastOp.job.job_id
                           /\ e.date = d }) = 1

\* C18: checkSpecificJob is the per-job algorithm of a drift scan.  For every
\* job and calendar state it leaves the job with the status a drift scan would
\* leave it with: in particular a job that is not eligible for monitoring
\* (terminal status, empty eventId or empty team) keeps its status.
C18_CheckLikeScan ==
    lastOp.op = "checkSpecificJob" => lastOp.statusAfter = lastOp.scanAfter

\* ================================================ properties: calendar import
\* C17: eventId back-reference.  In every reachable state the event a job
\* record's non-empty eventId refers to has a title that starts with the
\* job_id of that record.
C17_EventIdBackReference ==
    \A i \in 1..Len(rows) :
        rows[i].eventId # NoEvent
        => \A e \in events : e.id = rows[i].eventId => e.title.base = rows[i].job_id

\* ==================================================== properties: job store
\* C14: job_id uniqueness under concurrency.  Under any interleaving of
\* creation requests (each one getNextJobId followed by createJob), no two
\* stored records carry the same generated job_id.
C14_JobIdsUnique ==
    \A i, j \in 1..Len(rows) :
        i # j /\ StartsWithJOB(rows[i].job_id) => rows[i].job_id # rows[j].job_id

\* C15: job_id is assigned once and never reused or mutated.  After any
\* sequence of store operations every stored record still carries the job_id
\* it was created with, and no generated job_id was given to two records over
\* time.  (The records of the sheet are the last Len(rows) creations.)
C15_AssignedOnce ==
    /\ Len(rows) <= Len(issued)
       => \A i \in 1..Len(rows) : rows[i].job_id = issued[Len(issued) - Len(rows) + i]
    /\ \A a, b \in 1..Len(issued) :
           a # b /\ StartsWithJOB(issued[a]) => issued[a] # issued[b]

\* C19: getNextJobId returns JOB- followed by (the maximum numeric suffix
\* among the ids of the form JOB-###### in the store, 0 without one) + 1,
\* padded to 6 digits; an id of another form - empty, "/", another prefix,
\* a suffix that is not all digits - has no influence.
C19_NextJobId ==
    lastOp.op = "getNextJobId" =>
        LET WellFormed(id) == /\ Len(id) = 10
                              /\ StartsWithJOB(id)
                              /\ AllDigits(SubSeq(id, 5, 10))
            Suffix(id) == DigitsValue(SubSeq(id, 5, 10), 0)
            Numbers == { Suffix(lastOp.ids[k]) :
                           k \in { n \in 1..Len(lastOp.ids) : WellFormed(lastOp.ids[n]) } }
            Highest == IF Numbers = {} THEN 0
                       ELSE CHOOSE m \in Numbers : \A n \in Numbers : n <= m
        IN  lastOp.job_id = JobId(Highest + 1)

\* C20: column repair.  The repair pass swaps zone and status of every record
\* whose zone holds a status literal and whose status holds a place name, and
\* leaves every record with both cells in their own domain as it was.
C20_ColumnRepair ==
    lastOp.op = "fixColumnMismapping" =>
        \A k \in 1..Len(lastOp.before) :
            LET was == lastOp.before[k]
            IN  /\ was.zone \in StatusLiterals /\ was.status \in ZoneNames
                   => rows[k].zone = was.status /\ rows[k].status = was.zone
                /\ was.zone \in ZoneNames /\ was.status \in StatusLiterals
                   => rows[k] = was

\* ================================================ properties: time normalizer
\* C21: the normalizer maps an input of shape H:MM, HH:MM, H:M, one or two
\* hour digits, or three or four digits to two hour digits, a colon and two
\* minute digits, and yields the failure for every input of another shape.
C21_NormalizeShapes ==
    lastOp.op = "normalizeTime" =>
        LET s == lastOp.time
            Colon(h, m) == /\ Len(s) = h + 1 + m
                           /\ s[h + 1] = ":"
                           /\ AllDigits(SubSeq(s, 1, h))
                           /\ AllDigits(SubSeq(s, h + 2, Len(s)))
            Shaped == \/ Colon(1, 2) \/ Colon(2, 2) \/ Colon(1, 1)
                      \/ (Len(s) \in 1..4 /\ AllDigits(s))
            o == lastOp.ret
        IN  IF Shaped
            THEN Len(o) = 5 /\ o[3] = ":" /\ AllDigits(SubSeq(o, 1, 2))
                            /\ AllDigits(SubSeq(o, 4, 5))
            ELSE o = Null

\* C21 (as the code has it): the shapes are read after the blanks around the
\* input are dropped, and HH:M is a shape too: one or two digits, a colon,
\* one or two digits; or one to four digits.  Those give two hour digits, a
\* colon and two minute digits; every other input gives the failure.
C21_NormalizeTrimmedShapes ==
    lastOp.op = "normalizeTime" =>
        LET s == Trim(lastOp.time)
            Colon(h, m) == /\ Len(s) = h + 1 + m
                           /\ s[h + 1] = ":"
                           /\ AllDigits(SubSeq(s, 1, h))
                           /\ AllDigits(SubSeq(s, h + 2, Len(s)))
            Shaped == \/ \E h \in 1..2, m \in 1..2 : Colon(h, m)
                      \/ (Len(s) \in 1..4 /\ AllDigits(s))
            o == lastOp.ret
        IN  IF Shaped
            THEN Len(o) = 5 /\ o[3] = ":" /\ AllDigits(SubSeq(o, 1, 2))
                            /\ AllDigits(SubSeq(o, 4, 5))
            ELSE o = Null

C21_Witness ==
    /\ lastOp.op = "normalizeTime"
    /\ lastOp.time = <<"9", ":", "0">>
    /\ lastOp.ret = <<"0", "9", ":", "0", "0">>

\* ================================================= properties: event composer
\* C22: end-time repair by window.  When a job's end time is 0:00 or 00:00
\* and its time_window is AM, PM or All Day, the event the sync composes
\* starts and ends at the fixed window - AM 09:00-12:00, PM 13:00-17:00,
\* All Day 08:00-18:00 - whatever start time the job carried.
C22_EndTimeRepair ==
    (/\ lastOp.op = "sync"
     /\ lastOp.ret = "event"
     /\ lastOp.job.end_time \in {T_0_00, T_0000}
     /\ lastOp.job.time_window \in {W_AM, W_PM, W_AllDay})
    => \E e \in events :
          /\ e.id = lastOp.ids[1]
          /\ ~e.allDay
          /\ lastOp.job.time_window = W_AM => e.start = 9 * 60 /\ e.end = 12 * 60
          /\ lastOp.job.time_window = W_PM => e.start = 13 * 60 /\ e.end = 17 * 60
          /\ lastOp.job.time_window = W_AllDay => e.start = 8 * 60 /\ e.end = 18 * 60

\* C22 (as the code has it): with an end time of 0:00 or 00:00 the window AM
\* gives an event from 09:00 to 12:00 and the window PM one from 13:00 to
\* 17:00, whatever start time the job carried; the window All Day gives a
\* date-only all-day event on the job's date, which carries no times.
C22_EndTimeRepairTimedWindows ==
    (/\ lastOp.op = "sync"
     /\ lastOp.ret = "event"
     /\ lastOp.job.end_time \in {T_0_00, T_0000}
     /\ lastOp.job.time_window \in {W_AM, W_PM, W_AllDay})
    => \E e \in events :
          /\ e.id = lastOp.ids[1]
          /\ e.date = lastOp.job.date
          /\ lastOp.job.time_window = W_AM
             => ~e.allDay /\ e.start = 9 * 60 /\ e.end = 12 * 60
          /\ lastOp.job.time_window = W_PM
             => ~e.allDay /\ e.start = 13 * 60 /\ e.end = 17 * 60
          /\ lastOp.job.time_window = W_AllDay => e.allDay

C22_Witness ==
    /\ lastOp.op = "sync"
    /\ lastOp.ret = "event"
    /\ lastOp.job.end_time = T_0_00
    /\ lastOp.job.start_time = T_1700
    /\ lastOp.job.time_window = W_AM
    /\ \E e \in events : e.id = lastOp.ids[1] /\ e.start = 9 * 60 /\ e.end = 12 * 60

\* ================================================== properties: store updates
\* C23: store updates hit the right row.  updateJobStatus, updateJobEventId
\* and updateJobData called with a job_id write only to the stored row whose
\* job_id equals that argument; every other job's row is left unchanged,
\* whatever the rows' creation dates and their storage order.
C23_UpdatesHitRightRow ==
    lastOp.op = "storeUpdate"
    => /\ Len(rows) = Len(lastOp.before)
       /\ \A k \in 1..Len(rows) :
            lastOp.before[k].job_id # lastOp.job_id => rows[k] = lastOp.before[k]

\* =============================================== properties: drift detection
\* C24: drift-scan eligibility.  A drift scan never issues a calendar lookup
\* or a status write for a job that, in the run's snapshot, has an empty
\* eventId, an empty team, or a terminal status (Cancelled, Done, Closed or
\* the completion sentinel); such a job's status is the same after the scan
\* handled the snapshot as before.
C24_ScanEligibility ==
    \A r \in DOMAIN runs :
        \A k \in 1..Len(runs[r].details) :
            LET job   == runs[r].jobs[k]
                entry == runs[r].details[k]
            IN  (\/ job.eventId = NoEvent
                 \/ job.team = Null
                 \/ job.status \in {"Cancelled", "Done", "Closed", Sentinel})
                => /\ entry.obs.lookup = "none"
                   /\ entry.obs.writes = 0
                   /\ entry.statusAfter = entry.statusBefore

\* C25: only not-found triggers the transition.  Drift detection rewrites a
\* job's status only when the direct lookup of its eventId in the queue
\* calendar returned not-found; when that lookup fails for any other reason
\* the job's status is left unchanged and no store write is issued.
C25_OnlyNotFoundTransitions ==
    \A r \in DOMAIN runs :
        \A k \in 1..Len(runs[r].details) :
            LET entry == runs[r].details[k]
            IN  /\ (entry.statusAfter # entry.statusBefore \/ entry.obs.writes > 0)
                   => /\ entry.obs.lookup = "notfound"
                      /\ entry.eventCal # queueCalendars(entry.team)
                /\ entry.obs.lookup = "error"
                   => /\ entry.obs.writes = 0
                      /\ entry.statusAfter = entry.statusBefore

\* a lookup failed for a job whose event had left the queue calendar
C25_Witness ==
    \E r \in DOMAIN runs :
        \E k \in 1..Len(runs[r].details) :
            LET entry == runs[r].details[k]
            IN  /\ entry.obs.lookup = "error"
                /\ entry.eventCal # queueCalendars(entry.team)
                /\ entry.obs.writes = 0
                /\ entry.statusAfter = entry.statusBefore
                /\ entry.statusBefore # Sentinel

\* C26: run-summary counters.  In the summary a drift scan returns, moved is
\* the number of jobs whose event was found in another reachable calendar,
\* deleted (the "disappeared" counter) is the number of jobs whose event was
\* found in no calendar, and statusUpdated = moved + deleted.
C26_SummaryCounters ==
    \A r \in DOMAIN runs :
        runs[r].pc = "done"
        => LET details == runs[r].details
               results == runs[r].results
               updated == { k \in 1..Len(details) : details[k].result.processed }
           IN  /\ results.moved =
                     Cardinality({ k \in updated : details[k].obs.elsewhere })
               /\ results.deleted =
                     Cardinality({ k \in updated : ~details[k].obs.elsewhere })
               /\ results.statusUpdated = results.moved + results.deleted

\* ========================================= properties: sync engine, continued
\* C27: range write-back uses the real job.  After a range sync that met no
\* failure (the job store was reachable) and returned its list of per-day
\* events, the job's record holds a non-empty eventId that is the id of one
\* of those events: the store calls of the sync are keyed by the job's own
\* job_id, the derived identifier job_id-date appearing only in event titles.
C27_RangeWriteBack ==
    (/\ lastOp.op = "sync"
     /\ lastOp.ret = "list"
     /\ lastOp.clean
     /\ Len(lastOp.ids) > 0)
    => /\ lastOp.wbFailed = 0
       /\ \E i \in 1..Len(rows) :
            /\ rows[i].job_id = lastOp.job.job_id
            /\ rows[i].eventId # NoEvent
            /\ \E k \in 1..Len(lastOp.ids) : rows[i].eventId = lastOp.ids[k]

\* ================================================ properties: end of lifecycle
\* C28: lifecycle end.  A deletion request that met no failure, for a job
\* whose eventId is non-empty, leaves the job with an empty eventId - also
\* when the event has already disappeared from, or been moved out of, the
\* queue calendar.
C28_DeletionClearsEventId ==
    (/\ lastOp.op = "deleteCalendar"
     /\ lastOp.clean
     /\ lastOp.eventId # NoEvent)
    => \A i \in 1..Len(rows) :
          rows[i].job_id = lastOp.job_id => rows[i].eventId = NoEvent

\* =============================================== properties: concurrent syncs
\* C29: concurrent syncs do not duplicate.  Under any interleaving of the
\* search and insert steps of sync calls for the same single-date job, the
\* queue calendar holds at most one event for that job.
C29_NoDuplicateUnderInterleaving ==
    \A i \in 1..Len(rows) :
        Cardinality({ e \in events :
                        /\ e.cal = calendarIds(RepairTeam(rows[i].team))
                        /\ SummaryIncludes(e.title, PlainId(rows[i].job_id)) }) <= 1

\* ====================================================== properties: triggers
\* C30: no mutual exclusion between triggers.  Nothing serialises a drift
\* scan started by the recurring task and one started on demand: while a
\* scan of the recurring task is in progress an on-demand scan can start,
\* and while an on-demand scan is in progress the recurring task can fire;
\* and a run whose lookup of a job's event returned not-found writes the
\* job's status whether or not another run has written it already.
C30_NoMutualExclusion ==
    /\ ((\E t \in 1..MaxTasks : runs[t].pc = "running") /\ Finished(runs[0]))
       => ENABLED RunImmediateCheck
    /\ (runs[0].pc = "running" /\ LiveTasks # {}
        /\ \A t \in LiveTasks : Finished(runs[t]))
       => ENABLED DailyFire
    /\ \A r \in DOMAIN runs :
         \A k \in 1..Len(runs[r].details) :
            LET entry == runs[r].details[k]
            IN  (entry.obs.lookup = "notfound" /\ entry.fault = "none")
                => entry.obs.writes = 1 /\ entry.statusAfter = Sentinel

\* both runs are in progress and each has looked up and written the same job
C30_Witness ==
    /\ runs[0].pc = "running"
    /\ \E t \in 1..MaxTasks :
         /\ runs[t].pc = "running"
         /\ \E k \in 1..Len(runs[0].details), m \in 1..Len(runs[t].details) :
              /\ runs[0].details[k].jobId = runs[t].details[m].jobId
              /\ runs[0].details[k].obs.lookup = "notfound"
              /\ runs[t].details[m].obs.lookup = "notfound"
              /\ runs[0].details[k].obs.writes = 1
              /\ runs[t].details[m].obs.writes = 1

\* ====================================== properties: event composer, continued
\* C31: end-time fallback heuristic.  When the end time is 0:00 / 00:00 and
\* time_window is absent or not AM / PM / All Day, the event ends at 17:00 if
\* the start time is at or after 13:00 and at 12:00 otherwise.
C31_EndTimeFallback ==
    (/\ lastOp.op = "sync"
     /\ lastOp.ret = "event"
     /\ lastOp.job.end_time \in {T_0_00, T_0000}
     /\ lastOp.job.time_window \notin {W_AM, W_PM, W_AllDay})
    => \E e \in events :
          /\ e.id = lastOp.ids[1]
          /\ e.end = IF e.start >= 13 * 60 THEN 17 * 60 ELSE 12 * 60

\* C31 (as the code has it): with such an end time and no window of AM / PM /
\* All Day, the event ends at 12:00 when the job's start time is absent,
\* '09:00' or '9:00', and at 17:00 for every other start time, the ones
\* before 13:00 included; the start time is left as the job carried it.
C31_EndTimeFallbackNineOnly ==
    (/\ lastOp.op = "sync"
     /\ lastOp.ret = "event"
     /\ lastOp.job.end_time \in {T_0_00, T_0000}
     /\ lastOp.job.time_window \notin {W_AM, W_PM, W_AllDay})
    => \E e \in events :
          /\ e.id = lastOp.ids[1]
          /\ ~e.allDay
          /\ e.start = MinuteOfDay(TimePart(IF lastOp.job.start_time = Null THEN T_0900
                                            ELSE lastOp.job.start_time, T_0900))
          /\ e.end = IF lastOp.job.start_time \in {Null, T_0900, T_9_00}
                     THEN 12 * 60 ELSE 17 * 60

\* a job starting at 08:00 with the end 0:00 and no window got the end 17:00
C31_Witness ==
    /\ lastOp.op = "sync"
    /\ lastOp.ret = "event"
    /\ lastOp.job.end_time = T_0_00
    /\ lastOp.job.time_window = Null
    /\ lastOp.job.start_time = T_0800
    /\ \E e \in events : e.id = lastOp.ids[1] /\ e.start = 8 * 60 /\ e.end = 17 * 60

\* C32: end-time repair covers every midnight spelling.  Whenever the job's
\* end time normalizes to 00:00 ("0:00", "00:00", "0", "0:0", "0000", ...)
\* the repair policy is applied, so no timed event is written with an end
\* time of 00:00 on the scheduled day.
C32_NoMidnightEnd ==
    (lastOp.op = "sync" /\ lastOp.ret = "event")
    => \A e \in events :
          (e.id = lastOp.ids[1] /\ ~e.allDay) => e.end # 0

\* ============================================= properties: batch operations
\* C33: per-item audit in every batch operation.  The bulk sync of missing
\* events and the status-based sync of all jobs return a detail list with
\* exactly one entry for each item they processed, and their outcome
\* counters sum to the number of items processed.
C33_PerItemAudit ==
    /\ lastOp.op = "syncMissing"
       => lastOp.successful + lastOp.failed = Len(lastOp.details)
    /\ lastOp.op = "syncAllStatus"
       => /\ Len(lastOp.details) = lastOp.total_processed
          /\ lastOp.calendars_created + lastOp.calendars_deleted
                + lastOp.no_action + lastOp.failed = lastOp.total_processed

\* =============================================== properties: column repair
\* C34: column repair is a bounded correction.  After a repair pass, running
\* the pass a second time changes nothing: a record the pass has swapped is
\* not swapped again, whatever its zone and status cells hold.
C34_RepairIdempotent ==
    lastOp.op = "fixColumnMismapping"
    => \E again \in {fixColumnMismapping(rows)} :
          again.sheet = rows /\ again.fixed = 0

\* ============================================== properties: team resolution
\* C35: team resolution is the same in both components.  Every job whose
\* team sync resolves to a queue calendar (a corrupted '???' name repaired
\* to team A or team B included) is monitored by the drift scan against that
\* same calendar: the scan looks the job's event up there.
C35_SameTeamResolution ==
    \A r \in DOMAIN runs :
        \A k \in 1..Len(runs[r].details) :
            LET entry == runs[r].details[k]
            IN  calendarIds(RepairTeam(entry.team)) # Undefined
                => /\ queueCalendars(entry.team) = calendarIds(RepairTeam(entry.team))
                   /\ entry.obs.lookup # "none"

\* ================================================= properties: cancellation
\* C36: cancellation is not overwritten by drift detection.  A job whose
\* status is Cancelled (set through the status-update path, which deletes
\* its calendar event) is not rewritten to the completion sentinel by any
\* step of a drift scan, a scan whose snapshot was taken before the
\* cancellation included.
C36_CancelledStaysCancelled ==
    [][\A i \in 1..Len(rows) :
          rows[i].status = "Cancelled" => rows'[i].status # Sentinel]_vars

\* C37: a failed search does not insert.  Every day a sync handles is
\* searched once; the sync inserts events only for days whose search
\* completed (and found no event), so the inserts of one sync never
\* outnumber its completed searches.
C37_FailedSearchDoesNotInsert ==
    lastOp.op = "sync" =>
        lastOp.inserted <= lastOp.reads - lastOp.searchFailed

\* C38: cancellation removes all events.  After a status change to Cancelled
\* that met no calendar failure, the queue calendar of the job's team holds
\* no event of that job; for a date-range job none of its per-day events.
C38_CancellationRemovesAllEvents ==
    (lastOp.op = "setStatus" /\ lastOp.status = "Cancelled" /\ lastOp.clean) =>
        \A e \in events :
            ~ /\ e.cal = calendarIds(lastOp.job.team)
              /\ SummaryIncludes(e.title, PlainId(lastOp.job.job_id))

\* C39: no stale events after a schedule change.  After a sync of a dated job
\* that met no failure (none before it either), the queue calendar holds no event
\* of that job for a day the job is not scheduled on, and at most one event
\* of that job on each day it is scheduled on; this covers a sync after the
\* range was narrowed and after a range job became a single-date job or the
\* reverse.
C39_NoStaleEvents ==
    (lastOp.op = "sync" /\ lastOp.clean /\ faults = 0 /\ JobDates(lastOp.job) # {}) =>
        LET mine == { e \in events : /\ e.cal = lastOp.cal
                                     /\ SummaryIncludes(e.title, PlainId(lastOp.job.job_id)) }
        IN  /\ \A e \in mine : e.date \in JobDates(lastOp.job)
            /\ \A d \in JobDates(lastOp.job) :
                   Cardinality({ e \in mine : e.date = d }) <= 1

\* C40: event times are ordered.  Every timed (non-all-day) event a sync
\* inserted or updated starts strictly before it ends, whatever start_time,
\* end_time and time_window the job holds.
C40_EventTimesOrdered ==
    (lastOp.op = "sync" /\ lastOp.ret = "event") =>
        \A e \in events :
            ((\E k \in 1..Len(lastOp.ids) : lastOp.ids[k] = e.id) /\ ~e.allDay)
                => e.start < e.end

====
